---- MODULE Spec2Model ----
(***************************************************************************)
(* Presence monitor of src/main.py: the classifier, the transition policy  *)
(* of check_status, the history store (add_to_history, get_history_page,   *)
(* get_today_stats), the notifier and monitoring_loop, as one state        *)
(* machine.  One action is the code the loop task (or a command handler)   *)
(* runs between two awaits.                                                 *)
(*                                                                         *)
(* Encoding: Python's None is the empty tuple <<>> and a present value v   *)
(* is <<v>> (a formatted time is the pair <<date, time of day>>), so that  *)
(* every comparison the code makes is between values of one shape.         *)
(***************************************************************************)
EXTENDS Integers, Sequences, FiniteSets, TLC

\* ------------------------------------------------------------------ bounds
\* The clock is stopped at MaxTime: every sleep advances it by one tick.
MaxTime == 2
\* A day has DayLen ticks (what "%d.%m.%Y" of two instants can tell apart).
DayLen == 2
\* was_online instants the remote service reports: 1..MaxWasOnline.
MaxWasOnline == 2
\* FloodWaitError.seconds ranges over 1..MaxFloodSeconds.
MaxFloodSeconds == 2
\* Entries the history file holds at process start, left by earlier runs
\* (besides the absent and the empty file).
PriorLen == 499
\* get_history_page is asked for pages up to PageSlack beyond either end.
PageSlack == 1
\* Loop iterations of a long outage (SpecOutage), the last one at MaxTime.
MaxOutage == 8
\* Loop iterations next to the command handlers (SpecServe), the last one at MaxTime
ServePolls == 2

\* ------------------------------------------------------- program constants
ITEMS_PER_PAGE == 5
HISTORY_LIMIT == 500
USERBOT_HISTORY_LIMIT == 100
INITIAL_RECONNECT_DELAY == 5
max_reconnect_delay == 300
AUTH_RETRY_SECONDS == 60
CHECK_INTERVAL == 30

None == <<>>
Some(v) == <<v>>
\* None where the other values are strings
NoStatusType == "None"
NoAlert == "None"

Min(a, b) == IF a < b THEN a ELSE b
Max(a, b) == IF a > b THEN a ELSE b

\* ------------------------------------------------------------ the readings
\* user.status as telethon delivers it: one of the UserStatus* classes (or
\* None when the user has no status); UserStatusOffline carries was_online,
\* which may be None.
WasOnlineTimes == 1..MaxWasOnline

StatusClasses ==
    {"UserStatusOnline", "UserStatusOffline", "UserStatusRecently",
     "UserStatusLastWeek", "UserStatusLastMonth", "UserStatusEmpty", "NoneType"}

Status(cls, was) == [cls |-> cls, was_online |-> was]

Readings ==
    {Status(c, None) : c \in StatusClasses}
        \cup {Status("UserStatusOffline", Some(t)) : t \in WasOnlineTimes}

\* The local current_status before get_entity has returned in this call.
Unbound == Status("unbound", None)

\* datetime.strftime("%d.%m.%Y %H:%M:%S"): the date and the time of day.
strftime(t) == <<t \div DayLen, t % DayLen>>
\* datetime.strftime("%d.%m.%Y")
strftime_date(t) == t \div DayLen
\* str.startswith(today) on a "%d.%m.%Y %H:%M:%S" string
startswith(ts, today) == ts[1] = today

\* Faulty variant: the isinstance tests for the week and the month swapped.
get_status_type_week_month_swapped(status) ==
    IF status.cls = "UserStatusOnline" THEN "online"
    ELSE IF status.cls = "UserStatusOffline" THEN "offline"
    ELSE IF status.cls = "UserStatusRecently" THEN "recently"
    ELSE IF status.cls = "UserStatusLastMonth" THEN "last_week"
    ELSE IF status.cls = "UserStatusLastWeek" THEN "last_month"
    ELSE "unknown"

\* Faulty variant: without the isinstance test for UserStatusOffline.
get_status_type_no_offline_test(status) ==
    IF status.cls = "UserStatusOnline" THEN "online"
    ELSE IF status.cls = "UserStatusRecently" THEN "recently"
    ELSE IF status.cls = "UserStatusLastWeek" THEN "last_week"
    ELSE IF status.cls = "UserStatusLastMonth" THEN "last_month"
    ELSE "unknown"

\* Faulty variant: None instead of "unknown" for a status of no known class.
get_status_type_none_for_unknown(status) ==
    IF status.cls = "UserStatusOnline" THEN "online"
    ELSE IF status.cls = "UserStatusOffline" THEN "offline"
    ELSE IF status.cls = "UserStatusRecently" THEN "recently"
    ELSE IF status.cls = "UserStatusLastWeek" THEN "last_week"
    ELSE IF status.cls = "UserStatusLastMonth" THEN "last_month"
    ELSE NoStatusType

get_status_type(status) ==
    IF status.cls = "UserStatusOnline" THEN "online"
    ELSE IF status.cls = "UserStatusOffline" THEN "offline"
    ELSE IF status.cls = "UserStatusRecently" THEN "recently"
    ELSE IF status.cls = "UserStatusLastWeek" THEN "last_week"
    ELSE IF status.cls = "UserStatusLastMonth" THEN "last_month"
    ELSE "unknown"

\* current_last_online of check_status
current_last_online_of(status) ==
    IF status.cls = "UserStatusOffline" /\ status.was_online # None
    THEN status.was_online
    ELSE None

format_status(status) ==
    IF status.cls = "UserStatusOnline" THEN [label |-> "online", at |-> None]
    ELSE IF status.cls = "UserStatusOffline" THEN
        IF status.was_online # None
        THEN [label |-> "was", at |-> strftime(status.was_online[1])]
        ELSE [label |-> "offline", at |-> None]
    ELSE IF status.cls = "UserStatusRecently" THEN [label |-> "recently", at |-> None]
    ELSE IF status.cls = "UserStatusLastWeek" THEN [label |-> "this_week", at |-> None]
    ELSE IF status.cls = "UserStatusLastMonth" THEN [label |-> "this_month", at |-> None]
    ELSE IF status.cls = "UserStatusEmpty" THEN [label |-> "long_ago", at |-> None]
    ELSE [label |-> "unknown", at |-> None]

StatusKinds == {"online", "offline", "recently", "last_week", "last_month", "unknown"}

\* -------------------------------------------------------- the history file
\* HISTORY_FILE on disk: absent, a JSON list of entries, or the unparsable
\* remainder of a write that failed after open(..., "w") truncated the file.
FileAbsent == [state |-> "absent", log |-> <<>>]
FileOf(log) == [state |-> "ok", log |-> log]
FileCorrupt == [state |-> "corrupt", log |-> <<>>]

\* load_history: [] for an absent file; raises json.JSONDecodeError on a
\* corrupt one (LoadRaises).
LoadRaises(file) == file.state = "corrupt"
load_history(file) == IF file.state = "ok" THEN file.log ELSE <<>>

\* history[-n:]
LastN(s, n) == IF Len(s) > n THEN SubSeq(s, Len(s) - n + 1, Len(s)) ELSE s

Entry(t, status_type, status_text, last_online) ==
    [timestamp |-> strftime(t),
     status_type |-> status_type,
     status_text |-> status_text,
     last_online |-> IF last_online # None THEN strftime(last_online[1]) ELSE None]

\* Faulty variants of add_to_history_limit: the slice one entry too long, and
\* the slice taken from the front.
add_to_history_limit_one_more(file, limit, t, status_type, status_text, last_online) ==
    IF status_type = "recently" THEN file
    ELSE LET history == load_history(file)
             entry == Entry(t, status_type, status_text, last_online)
             appended == Append(history, entry)
         IN  FileOf(IF Len(appended) > limit THEN LastN(appended, limit + 1) ELSE appended)

add_to_history_limit_keeps_oldest(file, limit, t, status_type, status_text, last_online) ==
    IF status_type = "recently" THEN file
    ELSE LET history == load_history(file)
             entry == Entry(t, status_type, status_text, last_online)
             appended == Append(history, entry)
         IN  FileOf(IF Len(appended) > limit THEN SubSeq(appended, 1, limit) ELSE appended)

\* add_to_history when neither the read nor the write fails: the file it
\* leaves.  limit is 500 in main.py and 100 in status_monitor_userbot.py.
add_to_history_limit(file, limit, t, status_type, status_text, last_online) ==
    IF status_type = "recently" THEN file
    ELSE LET history == load_history(file)
             entry == Entry(t, status_type, status_text, last_online)
             appended == Append(history, entry)
         IN  FileOf(IF Len(appended) > limit THEN LastN(appended, limit) ELSE appended)

add_to_history(file, t, status_type, status_text, last_online) ==
    add_to_history_limit(file, HISTORY_LIMIT, t, status_type, status_text, last_online)

userbot_add_to_history(file, t, status_type, status_text, last_online) ==
    add_to_history_limit(file, USERBOT_HISTORY_LIMIT, t, status_type, status_text, last_online)

\* list.reverse()
Reverse(s) == [i \in 1..Len(s) |-> s[Len(s) + 1 - i]]

\* history[start:end] of Python, for 0 <= start
Slice(s, start, end) ==
    IF start >= Len(s) THEN <<>> ELSE SubSeq(s, start + 1, Min(end, Len(s)))

\* Faulty variant: total_pages as len // ITEMS_PER_PAGE + 1.
get_history_page_extra_page(file, page_arg) ==
    LET history == Reverse(load_history(file))
        total_pages == Max(1, Len(history) \div ITEMS_PER_PAGE + 1)
        page == Max(0, Min(page_arg, total_pages - 1))
        start == page * ITEMS_PER_PAGE
        end == start + ITEMS_PER_PAGE
    IN  [items |-> Slice(history, start, end),
         page |-> page,
         total_pages |-> total_pages,
         total_items |-> Len(history)]

\* Faulty variant: without history.reverse() (oldest first).
get_history_page_oldest_first(file, page_arg) ==
    LET history == load_history(file)
        total_pages == Max(1, (Len(history) + ITEMS_PER_PAGE - 1) \div ITEMS_PER_PAGE)
        page == Max(0, Min(page_arg, total_pages - 1))
        start == page * ITEMS_PER_PAGE
        end == start + ITEMS_PER_PAGE
    IN  [items |-> Slice(history, start, end),
         page |-> page,
         total_pages |-> total_pages,
         total_items |-> Len(history)]

get_history_page(file, page_arg) ==
    LET history == Reverse(load_history(file))
        total_pages == Max(1, (Len(history) + ITEMS_PER_PAGE - 1) \div ITEMS_PER_PAGE)
        page == Max(0, Min(page_arg, total_pages - 1))
        start == page * ITEMS_PER_PAGE
        end == start + ITEMS_PER_PAGE
    IN  [items |-> Slice(history, start, end),
         page |-> page,
         total_pages |-> total_pages,
         total_items |-> Len(history)]

\* Faulty variant: every entry of today that is not online counted as offline.
get_today_stats_offline_is_rest(file, t) ==
    LET history == load_history(file)
        today == strftime_date(t)
        today_entries == SelectSeq(history, LAMBDA e : startswith(e.timestamp, today))
    IN  [date |-> today,
         total |-> Len(today_entries),
         online |-> Len(SelectSeq(today_entries, LAMBDA e : e.status_type = "online")),
         offline |-> Len(SelectSeq(today_entries, LAMBDA e : e.status_type # "online")),
         entries |-> today_entries]

get_today_stats(file, t) ==
    LET history == load_history(file)
        today == strftime_date(t)
        today_entries == SelectSeq(history, LAMBDA e : startswith(e.timestamp, today))
    IN  [date |-> today,
         total |-> Len(today_entries),
         online |-> Len(SelectSeq(today_entries, LAMBDA e : e.status_type = "online")),
         offline |-> Len(SelectSeq(today_entries, LAMBDA e : e.status_type = "offline")),
         entries |-> today_entries]

\* ------------------------------------------------------------- exceptions
\* What a call on the telethon client can raise, as monitoring_loop and
\* check_status tell the classes apart; text is str(e).
Exc(type, seconds, text) == [type |-> type, seconds |-> seconds, text |-> text]

ClientErrors ==
    {Exc("FloodWaitError", s, "A wait is required") : s \in 1..MaxFloodSeconds}
        \cup {Exc("ConnectionError", 0, "Cannot send requests while disconnected"),
              Exc("Exception", 0, "Server closed the Connection"),
              Exc("Exception", 0, "Could not find the input entity")}

\* open() or write() failing in load_history / save_history
IOError == Exc("OSError", 0, "No space left on device")
\* json.load on an unparsable file (a ValueError)
JSONDecodeError == Exc("Exception", 0, "Expecting value")

\* "disconnected" in str(e).lower() or "connection" in str(e).lower()
MentionsConnection(text) ==
    text \in {"Cannot send requests while disconnected", "Server closed the Connection"}

\* ------------------------------------------------------------------- state
VARIABLES
    pc,                    \* the await monitoring_loop is suspended at
    previous_status_type,  \* global of main.py; NoStatusType is None
    previous_last_online,  \* global of main.py
    history_file,          \* contents of HISTORY_FILE
    bot_status,            \* global of main.py
    CHAT_ID,               \* global of main.py; "" when not configured
    reconnect_delay,       \* local of monitoring_loop
    current_status,        \* local of check_status: user.status of this poll
    alert_message,         \* local of check_status
    exc_seconds,           \* e.seconds of the FloodWaitError being handled
    sleep_seconds,         \* argument of the asyncio.sleep being awaited
    now,                   \* datetime.now(), in ticks
    reply                  \* the last call on the history store, or the last command
                           \* served, and what it returned

vars == <<pc, previous_status_type, previous_last_online, history_file, bot_status,
          CHAT_ID, reconnect_delay, current_status, alert_message, exc_seconds,
          sleep_seconds, now, reply>>

NoChat == ""

\* An entry an earlier run of the program left in the file: online, offline
\* with a last_online, and last_week entries in turn, all before time 0.
PriorEntry(i) ==
    LET t == i - PriorLen - 1
    IN  IF i % 3 = 0 THEN Entry(t, "online", format_status(Status("UserStatusOnline", None)), None)
        ELSE IF i % 3 = 1
             THEN Entry(t, "offline", format_status(Status("UserStatusOffline", Some(1))), Some(1))
             ELSE Entry(t, "last_week", format_status(Status("UserStatusLastWeek", None)), None)

PriorLog == [i \in 1..PriorLen |-> PriorEntry(i)]

NoPage == [items |-> <<>>, page |-> 0, total_pages |-> 0, total_items |-> 0]
NoStats == [date |-> 0, total |-> 0, online |-> 0, offline |-> 0, entries |-> <<>>]
NoReply == [call |-> "none", arg |-> 0, status_type |-> "", last_online |-> None,
            raised |-> FALSE, page |-> NoPage, stats |-> NoStats, heartbeat |-> None]

\* The process starts at tick t with previous_status_type = None, the
\* history file as the last run left it and CHAT_ID as os.getenv gave it.
StartedWith(files, t, chat) ==
    /\ pc = "top"
    /\ previous_status_type = NoStatusType
    /\ previous_last_online = None
    /\ history_file \in files
    /\ bot_status = [started_at |-> t, last_check |-> None, total_checks |-> 0,
                     total_alerts |-> 0, last_error |-> None, last_reconnect |-> None,
                     flood_waits |-> 0, reconnects |-> 0, is_connected |-> FALSE]
    /\ CHAT_ID = chat
    /\ reconnect_delay = INITIAL_RECONNECT_DELAY
    /\ current_status = Unbound
    /\ alert_message = NoAlert
    /\ exc_seconds = 0
    /\ sleep_seconds = 0
    /\ now = t
    /\ reply = NoReply

\* ... with no CHAT_ID in the environment.
StartedAt(files, t) == StartedWith(files, t, NoChat)

\* The process starts at tick 0.
Started(files) == StartedAt(files, 0)

\* No file, or a file holding the empty list.
Init == Started({FileAbsent, FileOf(<<>>)})

\* ------------------------------------------------- check_status: the rules
\* Faulty variants of alert_for, each one slip away from the code.
\* ... without the "previous_status_type is not None" test:
alert_for_no_baseline_test(prev_type, prev_last, status) ==
    LET current_status_type == get_status_type(status)
        current_last_online == current_last_online_of(status)
    IN  IF prev_type = "recently" /\ current_status_type # "recently"
             THEN "status_opened"
        ELSE IF current_status_type = "online" /\ prev_type # "online"
             THEN "now_online"
        ELSE IF /\ current_status_type = "offline"
                /\ current_last_online # None
                /\ current_last_online # prev_last
             THEN "last_seen_opened"
        ELSE NoAlert

\* ... without the first branch (previous "recently"):
alert_for_no_recently_branch(prev_type, prev_last, status) ==
    LET current_status_type == get_status_type(status)
        current_last_online == current_last_online_of(status)
    IN  IF prev_type = NoStatusType THEN NoAlert
        ELSE IF current_status_type = "online" /\ prev_type # "online"
             THEN "now_online"
        ELSE IF /\ current_status_type = "offline"
                /\ current_last_online # None
                /\ current_last_online # prev_last
             THEN "last_seen_opened"
        ELSE NoAlert

\* ... with the second branch only after "offline":
alert_for_online_after_offline_only(prev_type, prev_last, status) ==
    LET current_status_type == get_status_type(status)
        current_last_online == current_last_online_of(status)
    IN  IF prev_type = NoStatusType THEN NoAlert
        ELSE IF prev_type = "recently" /\ current_status_type # "recently"
             THEN "status_opened"
        ELSE IF current_status_type = "online" /\ prev_type = "offline"
             THEN "now_online"
        ELSE IF /\ current_status_type = "offline"
                /\ current_last_online # None
                /\ current_last_online # prev_last
             THEN "last_seen_opened"
        ELSE NoAlert

\* ... with the third branch asking for a previous last_online as well:
alert_for_needs_previous_last(prev_type, prev_last, status) ==
    LET current_status_type == get_status_type(status)
        current_last_online == current_last_online_of(status)
    IN  IF prev_type = NoStatusType THEN NoAlert
        ELSE IF prev_type = "recently" /\ current_status_type # "recently"
             THEN "status_opened"
        ELSE IF current_status_type = "online" /\ prev_type # "online"
             THEN "now_online"
        ELSE IF /\ current_status_type = "offline"
                /\ current_last_online # None
                /\ prev_last # None
                /\ current_last_online # prev_last
             THEN "last_seen_opened"
        ELSE NoAlert

\* ... with the third branch not comparing with the previous last_online:
alert_for_any_last_seen(prev_type, prev_last, status) ==
    LET current_status_type == get_status_type(status)
        current_last_online == current_last_online_of(status)
    IN  IF prev_type = NoStatusType THEN NoAlert
        ELSE IF prev_type = "recently" /\ current_status_type # "recently"
             THEN "status_opened"
        ELSE IF current_status_type = "online" /\ prev_type # "online"
             THEN "now_online"
        ELSE IF /\ current_status_type = "offline"
                /\ current_last_online # None
             THEN "last_seen_opened"
        ELSE NoAlert

\* ... with the first branch not asking that the current type differs:
alert_for_recently_to_recently(prev_type, prev_last, status) ==
    LET current_status_type == get_status_type(status)
        current_last_online == current_last_online_of(status)
    IN  IF prev_type = NoStatusType THEN NoAlert
        ELSE IF prev_type = "recently"
             THEN "status_opened"
        ELSE IF current_status_type = "online" /\ prev_type # "online"
             THEN "now_online"
        ELSE IF /\ current_status_type = "offline"
                /\ current_last_online # None
                /\ current_last_online # prev_last
             THEN "last_seen_opened"
        ELSE NoAlert

\* ... with the second branch tested before the first:
alert_for_online_branch_first(prev_type, prev_last, status) ==
    LET current_status_type == get_status_type(status)
        current_last_online == current_last_online_of(status)
    IN  IF prev_type = NoStatusType THEN NoAlert
        ELSE IF current_status_type = "online" /\ prev_type # "online"
             THEN "now_online"
        ELSE IF prev_type = "recently" /\ current_status_type # "recently"
             THEN "status_opened"
        ELSE IF /\ current_status_type = "offline"
                /\ current_last_online # None
                /\ current_last_online # prev_last
             THEN "last_seen_opened"
        ELSE NoAlert

\* Which branch of the if/elif chain assigns alert_message (NoAlert: none).
alert_for(prev_type, prev_last, status) ==
    LET current_status_type == get_status_type(status)
        current_last_online == current_last_online_of(status)
    IN  IF prev_type = NoStatusType THEN NoAlert
        ELSE IF prev_type = "recently" /\ current_status_type # "recently"
             THEN "status_opened"
        ELSE IF current_status_type = "online" /\ prev_type # "online"
             THEN "now_online"
        ELSE IF /\ current_status_type = "offline"
                /\ current_last_online # None
                /\ current_last_online # prev_last
             THEN "last_seen_opened"
        ELSE NoAlert

\* The last_online argument the taken branch passes to add_to_history.
recorded_last_online(alert, status) ==
    IF alert = "now_online" THEN None ELSE current_last_online_of(status)

\* The file after the add_to_history call of the taken branch has succeeded.
recorded_file(file, t, alert, status) ==
    add_to_history(file, t, get_status_type(status), format_status(status),
                   recorded_last_online(alert, status))

\* --------------------------------------------------------- monitoring_loop
\* check_status has returned normally: the rest of the try block, then the
\* loop is suspended in asyncio.sleep(CHECK_INTERVAL).
CheckReturned(status_before) ==
    [status_before EXCEPT !.total_checks = @ + 1, !.last_check = Some(now)]

\* An exception e reaches the except clauses of monitoring_loop.  The
\* notifier is awaited only when a destination is configured
\* (send_bot_notification returns at once otherwise).
\* Faulty variant: an unrecognized exception is not caught and ends the loop.
LoopRaise_unrecognized_stops(e) ==
    IF e.type = "FloodWaitError" THEN
        /\ bot_status' = [bot_status EXCEPT !.flood_waits = @ + 1]
        /\ exc_seconds' = e.seconds
        /\ IF CHAT_ID = NoChat
           THEN pc' = "flood_sleep" /\ sleep_seconds' = e.seconds
           ELSE pc' = "flood_notify" /\ sleep_seconds' = 0
    ELSE IF e.type \in {"ConnectionError", "OSError"} \/ MentionsConnection(e.text) THEN
        /\ bot_status' = [bot_status EXCEPT !.is_connected = FALSE, !.last_error = Some(e.text)]
        /\ exc_seconds' = 0
        /\ IF CHAT_ID = NoChat
           THEN pc' = "backoff_sleep" /\ sleep_seconds' = reconnect_delay
           ELSE pc' = "backoff_notify" /\ sleep_seconds' = 0
    ELSE
        /\ bot_status' = bot_status
        /\ exc_seconds' = 0
        /\ pc' = "stopped"
        /\ sleep_seconds' = 0

LoopRaise(e) ==
    IF e.type = "FloodWaitError" THEN
        /\ bot_status' = [bot_status EXCEPT !.flood_waits = @ + 1]
        /\ exc_seconds' = e.seconds
        /\ IF CHAT_ID = NoChat
           THEN pc' = "flood_sleep" /\ sleep_seconds' = e.seconds
           ELSE pc' = "flood_notify" /\ sleep_seconds' = 0
    ELSE IF e.type \in {"ConnectionError", "OSError"} \/ MentionsConnection(e.text) THEN
        /\ bot_status' = [bot_status EXCEPT !.is_connected = FALSE, !.last_error = Some(e.text)]
        /\ exc_seconds' = 0
        /\ IF CHAT_ID = NoChat
           THEN pc' = "backoff_sleep" /\ sleep_seconds' = reconnect_delay
           ELSE pc' = "backoff_notify" /\ sleep_seconds' = 0
    ELSE
        /\ bot_status' = [bot_status EXCEPT !.last_error = Some(e.text)]
        /\ exc_seconds' = 0
        /\ pc' = "interval_sleep"
        /\ sleep_seconds' = CHECK_INTERVAL

\* Faulty variant of LoopTop: the reconnect block without its first line,
\* bot_status["is_connected"] = False.
LoopTop_keeps_flag ==
    /\ pc = "top"
    /\ \E connected \in BOOLEAN :
          IF connected
          THEN /\ bot_status' = [bot_status EXCEPT !.is_connected = TRUE]
               /\ pc' = "get_entity"
          ELSE /\ bot_status' = bot_status
               /\ pc' = "connect"
    /\ current_status' = Unbound
    /\ alert_message' = NoAlert
    /\ UNCHANGED <<previous_status_type, previous_last_online, history_file, CHAT_ID,
                   reconnect_delay, exc_seconds, sleep_seconds, now, reply>>

\* Top of the while loop: client.is_connected() is read from the client.
LoopTop ==
    /\ pc = "top"
    /\ \E connected \in BOOLEAN :
          IF connected
          THEN /\ bot_status' = [bot_status EXCEPT !.is_connected = TRUE]
               /\ pc' = "get_entity"
          ELSE /\ bot_status' = [bot_status EXCEPT !.is_connected = FALSE]
               /\ pc' = "connect"
    /\ current_status' = Unbound
    /\ alert_message' = NoAlert
    /\ UNCHANGED <<previous_status_type, previous_last_online, history_file, CHAT_ID,
                   reconnect_delay, exc_seconds, sleep_seconds, now, reply>>

\* await client.connect() returns or raises
Connect ==
    /\ pc = "connect"
    /\ \/ /\ pc' = "authorize"
          /\ UNCHANGED <<bot_status, exc_seconds, sleep_seconds>>
       \/ \E e \in ClientErrors : LoopRaise(e)
    /\ UNCHANGED <<previous_status_type, previous_last_online, history_file, CHAT_ID,
                   reconnect_delay, current_status, alert_message, now, reply>>

\* await client.is_user_authorized() returns True
Authorized ==
    /\ pc = "authorize"
    /\ bot_status' = [bot_status EXCEPT !.is_connected = TRUE, !.reconnects = @ + 1,
                                        !.last_reconnect = Some(now)]
    /\ IF CHAT_ID = NoChat
       THEN pc' = "get_entity" /\ reconnect_delay' = INITIAL_RECONNECT_DELAY
       ELSE pc' = "reconnect_notify" /\ UNCHANGED reconnect_delay
    /\ UNCHANGED <<previous_status_type, previous_last_online, history_file, CHAT_ID,
                   current_status, alert_message, exc_seconds, sleep_seconds, now, reply>>

\* await client.is_user_authorized() returns False
NotAuthorized ==
    /\ pc = "authorize"
    /\ bot_status' = [bot_status EXCEPT !.last_error = Some("Session is invalid")]
    /\ IF CHAT_ID = NoChat
       THEN pc' = "cooldown_sleep" /\ sleep_seconds' = AUTH_RETRY_SECONDS
       ELSE pc' = "auth_notify" /\ UNCHANGED sleep_seconds
    /\ UNCHANGED <<previous_status_type, previous_last_online, history_file, CHAT_ID,
                   reconnect_delay, current_status, alert_message, exc_seconds, now, reply>>

\* await client.is_user_authorized() raises
AuthorizeRaises ==
    /\ pc = "authorize"
    /\ \E e \in ClientErrors : LoopRaise(e)
    /\ UNCHANGED <<previous_status_type, previous_last_online, history_file, CHAT_ID,
                   reconnect_delay, current_status, alert_message, now, reply>>

\* The send of a notification that is no alert ends (sent, or the failure
\* logged): the loop goes on to the sleep or the poll that follows it.
AuthNotified ==
    /\ pc = "auth_notify"
    /\ pc' = "cooldown_sleep"
    /\ sleep_seconds' = AUTH_RETRY_SECONDS
    /\ UNCHANGED <<previous_status_type, previous_last_online, history_file, bot_status,
                   CHAT_ID, reconnect_delay, current_status, alert_message, exc_seconds, now, reply>>

\* Faulty variant of ReconnectNotified: the notice of the reconnect sent
\* with is_alert=True, so that total_alerts counts it.
ReconnectNotified_counts_alert ==
    /\ pc = "reconnect_notify"
    /\ reconnect_delay' = INITIAL_RECONNECT_DELAY
    /\ \E sent \in BOOLEAN :
          bot_status' = [bot_status EXCEPT !.is_connected = TRUE,
                                          !.total_alerts = IF sent THEN @ + 1 ELSE @]
    /\ pc' = "get_entity"
    /\ UNCHANGED <<previous_status_type, previous_last_online, history_file, CHAT_ID,
                   current_status, alert_message, exc_seconds, sleep_seconds, now, reply>>

ReconnectNotified ==
    /\ pc = "reconnect_notify"
    /\ reconnect_delay' = INITIAL_RECONNECT_DELAY
    /\ bot_status' = [bot_status EXCEPT !.is_connected = TRUE]
    /\ pc' = "get_entity"
    /\ UNCHANGED <<previous_status_type, previous_last_online, history_file, CHAT_ID,
                   current_status, alert_message, exc_seconds, sleep_seconds, now, reply>>

FloodNotified ==
    /\ pc = "flood_notify"
    /\ pc' = "flood_sleep"
    /\ sleep_seconds' = exc_seconds
    /\ UNCHANGED <<previous_status_type, previous_last_online, history_file, bot_status,
                   CHAT_ID, reconnect_delay, current_status, alert_message, exc_seconds, now, reply>>

BackoffNotified ==
    /\ pc = "backoff_notify"
    /\ pc' = "backoff_sleep"
    /\ sleep_seconds' = reconnect_delay
    /\ UNCHANGED <<previous_status_type, previous_last_online, history_file, bot_status,
                   CHAT_ID, reconnect_delay, current_status, alert_message, exc_seconds, now, reply>>

\* ------------------------------------------------ check_status: one poll
\* Faulty variant of CheckStatusRaise: without the clause
\* "except (ConnectionError, OSError): raise", so that an OSError that
\* mentions no connection is logged and swallowed with the rest.
CheckStatusRaise_swallows_OSError(e) ==
    IF \/ e.type = "FloodWaitError"
       \/ MentionsConnection(e.text)
    THEN LoopRaise(e) /\ UNCHANGED reconnect_delay
    ELSE /\ bot_status' = CheckReturned(bot_status)
         /\ reconnect_delay' = INITIAL_RECONNECT_DELAY
         /\ pc' = "interval_sleep"
         /\ sleep_seconds' = CHECK_INTERVAL
         /\ UNCHANGED exc_seconds

\* An exception e raised inside the try block of check_status: re-raised to
\* monitoring_loop, or logged and swallowed (check_status then returns
\* without the two assignments that commit the previous status).
CheckStatusRaise(e) ==
    IF \/ e.type \in {"FloodWaitError", "ConnectionError", "OSError"}
       \/ MentionsConnection(e.text)
    THEN LoopRaise(e) /\ UNCHANGED reconnect_delay
    ELSE /\ bot_status' = CheckReturned(bot_status)
         /\ reconnect_delay' = INITIAL_RECONNECT_DELAY
         /\ pc' = "interval_sleep"
         /\ sleep_seconds' = CHECK_INTERVAL
         /\ UNCHANGED exc_seconds

\* get_entity raises
PollRaises ==
    /\ pc = "get_entity"
    /\ \E e \in ClientErrors : CheckStatusRaise(e)
    /\ UNCHANGED <<previous_status_type, previous_last_online, history_file, CHAT_ID,
                   current_status, alert_message, now, reply>>

\* get_entity returns a status for which no branch raises an alert: the
\* previous status is committed and check_status returns.
PollQuiet ==
    /\ pc = "get_entity"
    /\ \E r \in Readings :
          /\ alert_for(previous_status_type, previous_last_online, r) = NoAlert
          /\ current_status' = r
          /\ previous_status_type' = get_status_type(r)
          /\ previous_last_online' = current_last_online_of(r)
    /\ alert_message' = NoAlert
    /\ bot_status' = CheckReturned(bot_status)
    /\ reconnect_delay' = INITIAL_RECONNECT_DELAY
    /\ pc' = "interval_sleep"
    /\ sleep_seconds' = CHECK_INTERVAL
    /\ UNCHANGED <<history_file, CHAT_ID, exc_seconds, now, reply>>

\* Faulty variant of PollAlert: a save_history that awaits between opening
\* the file for writing (which truncates it) and writing the list, so that
\* the loop is suspended with the file open and empty.
PollAlert_yields_inside_write ==
    /\ pc = "get_entity"
    /\ ~LoadRaises(history_file)
    /\ \E r \in Readings :
          LET alert == alert_for(previous_status_type, previous_last_online, r)
          IN  /\ alert # NoAlert
              /\ current_status' = r
              /\ alert_message' = alert
              /\ IF CHAT_ID = NoChat
                 THEN /\ history_file' = recorded_file(history_file, now, alert, r)
                      /\ previous_status_type' = get_status_type(r)
                      /\ previous_last_online' = current_last_online_of(r)
                      /\ bot_status' = CheckReturned(bot_status)
                      /\ reconnect_delay' = INITIAL_RECONNECT_DELAY
                      /\ pc' = "interval_sleep"
                      /\ sleep_seconds' = CHECK_INTERVAL
                 ELSE /\ history_file' = FileCorrupt
                      /\ pc' = "alert_send"
                      /\ UNCHANGED <<previous_status_type, previous_last_online, bot_status,
                                     reconnect_delay, sleep_seconds>>
    /\ UNCHANGED <<CHAT_ID, exc_seconds, now, reply>>

\* Faulty variant of PollAlert: the previous status committed before the
\* send of the alert is awaited.
PollAlert_commits_before_send ==
    /\ pc = "get_entity"
    /\ ~LoadRaises(history_file)
    /\ \E r \in Readings :
          LET alert == alert_for(previous_status_type, previous_last_online, r)
          IN  /\ alert # NoAlert
              /\ current_status' = r
              /\ alert_message' = alert
              /\ history_file' = recorded_file(history_file, now, alert, r)
              /\ previous_status_type' = get_status_type(r)
              /\ previous_last_online' = current_last_online_of(r)
              /\ IF CHAT_ID = NoChat
                 THEN /\ bot_status' = CheckReturned(bot_status)
                      /\ reconnect_delay' = INITIAL_RECONNECT_DELAY
                      /\ pc' = "interval_sleep"
                      /\ sleep_seconds' = CHECK_INTERVAL
                 ELSE /\ pc' = "alert_send"
                      /\ UNCHANGED <<bot_status, reconnect_delay, sleep_seconds>>
    /\ UNCHANGED <<CHAT_ID, exc_seconds, now, reply>>

\* get_entity returns a status for which a branch raises an alert, and its
\* add_to_history call succeeds.  With a destination configured the loop is
\* then suspended in the send; without one send_bot_notification returns at
\* once and check_status runs to its end.
PollAlert ==
    /\ pc = "get_entity"
    /\ ~LoadRaises(history_file)
    /\ \E r \in Readings :
          LET alert == alert_for(previous_status_type, previous_last_online, r)
          IN  /\ alert # NoAlert
              /\ current_status' = r
              /\ alert_message' = alert
              /\ history_file' = recorded_file(history_file, now, alert, r)
              /\ IF CHAT_ID = NoChat
                 THEN /\ previous_status_type' = get_status_type(r)
                      /\ previous_last_online' = current_last_online_of(r)
                      /\ bot_status' = CheckReturned(bot_status)
                      /\ reconnect_delay' = INITIAL_RECONNECT_DELAY
                      /\ pc' = "interval_sleep"
                      /\ sleep_seconds' = CHECK_INTERVAL
                 ELSE /\ pc' = "alert_send"
                      /\ UNCHANGED <<previous_status_type, previous_last_online, bot_status,
                                     reconnect_delay, sleep_seconds>>
    /\ UNCHANGED <<CHAT_ID, exc_seconds, now, reply>>

\* As PollAlert, but add_to_history raises: OSError from open() or from the
\* write (which, once the file is truncated, leaves it unparsable), or the
\* JSONDecodeError of load_history on an unparsable file.
PollAppendFails ==
    /\ pc = "get_entity"
    /\ \E r \in Readings :
          LET alert == alert_for(previous_status_type, previous_last_online, r)
          IN  /\ alert # NoAlert
              /\ current_status' = r
              /\ alert_message' = alert
    /\ \/ /\ LoadRaises(history_file)
          /\ CheckStatusRaise(JSONDecodeError)
          /\ UNCHANGED history_file
       \/ /\ CheckStatusRaise(IOError)
          /\ UNCHANGED history_file
       \/ /\ ~LoadRaises(history_file)
          /\ CheckStatusRaise(IOError)
          /\ history_file' = FileCorrupt
    /\ UNCHANGED <<previous_status_type, previous_last_online, CHAT_ID, now, reply>>

\* Faulty variant of AlertSent: the exception of a failed send is not caught
\* in send_bot_notification and reaches the last handler of monitoring_loop.
AlertSent_failure_escalates ==
    /\ pc = "alert_send"
    /\ \/ /\ bot_status' = CheckReturned([bot_status EXCEPT !.total_alerts = @ + 1])
          /\ previous_status_type' = get_status_type(current_status)
          /\ previous_last_online' = current_last_online_of(current_status)
          /\ reconnect_delay' = INITIAL_RECONNECT_DELAY
       \/ /\ bot_status' = [bot_status EXCEPT !.last_error = Some("Bad Request: chat not found")]
          /\ UNCHANGED <<previous_status_type, previous_last_online, reconnect_delay>>
    /\ pc' = "interval_sleep"
    /\ sleep_seconds' = CHECK_INTERVAL
    /\ UNCHANGED <<history_file, CHAT_ID, current_status, alert_message, exc_seconds, now, reply>>

\* The send of the alert ends: total_alerts counts it when it was sent; then
\* check_status commits the previous status and returns.
AlertSent ==
    /\ pc = "alert_send"
    /\ \E sent \in BOOLEAN :
          bot_status' = CheckReturned(IF sent
                                      THEN [bot_status EXCEPT !.total_alerts = @ + 1]
                                      ELSE bot_status)
    /\ previous_status_type' = get_status_type(current_status)
    /\ previous_last_online' = current_last_online_of(current_status)
    /\ reconnect_delay' = INITIAL_RECONNECT_DELAY
    /\ pc' = "interval_sleep"
    /\ sleep_seconds' = CHECK_INTERVAL
    /\ UNCHANGED <<history_file, CHAT_ID, current_status, alert_message, exc_seconds, now, reply>>

\* ------------------------------------------------------------- the sleeps
\* asyncio.sleep(CHECK_INTERVAL), asyncio.sleep(60) or asyncio.sleep(e.seconds)
\* ends and the loop is at its top again.
\* Faulty variant: the flood handler without its "continue", so that the
\* interval sleep follows the flood sleep.
SleepDone_flood_then_interval ==
    /\ pc \in {"interval_sleep", "cooldown_sleep", "flood_sleep"}
    /\ now < MaxTime
    /\ now' = now + 1
    /\ IF pc = "flood_sleep"
       THEN pc' = "interval_sleep" /\ sleep_seconds' = CHECK_INTERVAL
       ELSE pc' = "top" /\ sleep_seconds' = 0
    /\ exc_seconds' = 0
    /\ UNCHANGED <<previous_status_type, previous_last_online, history_file, bot_status,
                   CHAT_ID, reconnect_delay, current_status, alert_message, reply>>

SleepDone ==
    /\ pc \in {"interval_sleep", "cooldown_sleep", "flood_sleep"}
    /\ now < MaxTime
    /\ now' = now + 1
    /\ pc' = "top"
    /\ sleep_seconds' = 0
    /\ exc_seconds' = 0
    /\ UNCHANGED <<previous_status_type, previous_last_online, history_file, bot_status,
                   CHAT_ID, reconnect_delay, current_status, alert_message, reply>>

\* Faulty variant: the delay doubled without the cap.
BackoffSleepDone_no_cap ==
    /\ pc = "backoff_sleep"
    /\ now < MaxTime
    /\ now' = now + 1
    /\ reconnect_delay' = reconnect_delay * 2
    /\ pc' = "top"
    /\ sleep_seconds' = 0
    /\ exc_seconds' = 0
    /\ UNCHANGED <<previous_status_type, previous_last_online, history_file, bot_status,
                   CHAT_ID, current_status, alert_message, reply>>

\* asyncio.sleep(reconnect_delay) ends; the delay is doubled up to the cap.
BackoffSleepDone ==
    /\ pc = "backoff_sleep"
    /\ now < MaxTime
    /\ now' = now + 1
    /\ reconnect_delay' = Min(reconnect_delay * 2, max_reconnect_delay)
    /\ pc' = "top"
    /\ sleep_seconds' = 0
    /\ exc_seconds' = 0
    /\ UNCHANGED <<previous_status_type, previous_last_online, history_file, bot_status,
                   CHAT_ID, current_status, alert_message, reply>>

\* ------------------------------------------------------ command handlers
\* /start: the chat the command came from becomes the destination.
cmd_start ==
    /\ CHAT_ID' = "chat"
    /\ UNCHANGED <<pc, previous_status_type, previous_last_online, history_file, bot_status,
                   reconnect_delay, current_status, alert_message, exc_seconds,
                   sleep_seconds, now, reply>>

monitoring_loop ==
    \/ LoopTop
    \/ Connect
    \/ Authorized
    \/ NotAuthorized
    \/ AuthorizeRaises
    \/ AuthNotified
    \/ ReconnectNotified
    \/ FloodNotified
    \/ BackoffNotified
    \/ PollRaises
    \/ PollQuiet
    \/ PollAlert
    \/ PollAppendFails
    \/ AlertSent
    \/ SleepDone
    \/ BackoffSleepDone

\* The loop task and /start, the one handler that writes state the loop
\* reads.  The reading handlers (/history, /stats, the pagination callback)
\* are actions of SpecStore below.
Next == monitoring_loop \/ cmd_start

Spec == Init /\ [][Next]_vars

\* The event loop resumes the task whenever the call or sleep it awaits has
\* ended, and every awaited call ends, by returning or by raising.
\* Here the destination chat is configured from the start (CHAT_ID in the
\* environment), so that every notification is sent or fails.
LiveInit == StartedWith({FileAbsent}, 0, "chat")

SpecLive == LiveInit /\ [][monitoring_loop]_vars /\ WF_vars(monitoring_loop)

\* ---------------------------------------------------------- a long outage
\* monitoring_loop over MaxOutage iterations in which the network comes and
\* goes: connect, the authorization check and get_entity return or raise a
\* connectivity-class error (get_entity also an error check_status swallows),
\* while the contact's status stays hidden, so that every iteration ends in
\* the backoff sleep or in the interval sleep after check_status returned.
\* No rate limit and no invalid session.
OutageStart == MaxTime + 1 - MaxOutage

OutageConnect == Connect /\ pc' \in {"authorize", "backoff_notify", "backoff_sleep"}

OutageAuthorizeRaises == AuthorizeRaises /\ pc' \in {"backoff_notify", "backoff_sleep"}

OutagePollRaises == PollRaises /\ pc' \in {"backoff_notify", "backoff_sleep", "interval_sleep"}

OutagePollQuiet == PollQuiet /\ current_status' = Status("UserStatusRecently", None)

OutageNext ==
    \/ LoopTop
    \/ OutageConnect
    \/ Authorized
    \/ OutageAuthorizeRaises
    \/ OutagePollRaises
    \/ OutagePollQuiet
    \/ ReconnectNotified
    \/ BackoffNotified
    \/ SleepDone
    \/ BackoffSleepDone
    \/ cmd_start

OutageInit == StartedAt({FileAbsent}, OutageStart)

SpecOutage == OutageInit /\ [][OutageNext]_vars

\* ------------------------------------------------------ the history store
\* The store by itself: add_to_history called with any status type and any
\* last_online (a superset of the calls check_status makes), one call per
\* tick, and the reading handlers, from the file an earlier run left: none,
\* the empty list, or PriorLen entries.
StoreVars == <<history_file, now, reply>>
MonitorVars == <<pc, previous_status_type, previous_last_online, bot_status, CHAT_ID,
                 reconnect_delay, current_status, alert_message, exc_seconds,
                 sleep_seconds>>

\* The arguments add_to_history is called with here: the type it ignores
\* and three it records (one of them neither online nor offline), with and
\* without a last_online.
StatusTypeArgs == {"recently", "online", "offline", "last_week"}
LastOnlineArgs == {None, Some(MaxWasOnline)}

AppendReply(status_type, last_online, raised) ==
    [NoReply EXCEPT !.call = "add_to_history", !.status_type = status_type,
                    !.last_online = last_online, !.raised = raised]

\* status_text is whatever format_status gave the caller
TextArg(status_type, last_online) ==
    [label |-> status_type,
     at |-> IF last_online # None THEN strftime(last_online[1]) ELSE None]

\* add_to_history(status_type, status_text, last_online) returns
add_to_history_returns ==
    /\ now < MaxTime
    /\ \E status_type \in StatusTypeArgs, last_online \in LastOnlineArgs :
          /\ status_type # "recently" => ~LoadRaises(history_file)
          /\ history_file' = add_to_history(history_file, now, status_type,
                                            TextArg(status_type, last_online), last_online)
          /\ reply' = AppendReply(status_type, last_online, FALSE)
    /\ now' = now + 1
    /\ UNCHANGED MonitorVars

\* add_to_history raises: json.load on an unparsable file, open(), or the
\* write after the file was truncated.
add_to_history_raises ==
    /\ now < MaxTime
    /\ \E status_type \in StatusTypeArgs \ {"recently"}, last_online \in LastOnlineArgs :
          reply' = AppendReply(status_type, last_online, TRUE)
    /\ \/ UNCHANGED history_file
       \/ ~LoadRaises(history_file) /\ history_file' = FileCorrupt
    /\ now' = now + 1
    /\ UNCHANGED MonitorVars

\* The page arguments tried in a state: around page 0 and around the last page.
PageArgs ==
    LET total_pages == get_history_page(history_file, 0).total_pages
    IN  (0 - PageSlack .. PageSlack) \cup (total_pages - PageSlack .. total_pages + PageSlack)

PageReply(page_arg) ==
    [NoReply EXCEPT !.call = "get_history_page", !.arg = page_arg,
                    !.raised = LoadRaises(history_file),
                    !.page = IF LoadRaises(history_file) THEN NoPage
                             ELSE get_history_page(history_file, page_arg)]

\* /history
cmd_history ==
    /\ reply' = PageReply(0)
    /\ UNCHANGED <<history_file, now>>
    /\ UNCHANGED MonitorVars

\* the pagination buttons: callback data "history_<page>"
callback_history_page ==
    /\ \E page_arg \in PageArgs : reply' = PageReply(page_arg)
    /\ UNCHANGED <<history_file, now>>
    /\ UNCHANGED MonitorVars

\* /stats
cmd_stats ==
    /\ reply' = [NoReply EXCEPT !.call = "get_today_stats",
                                !.raised = LoadRaises(history_file),
                                !.stats = IF LoadRaises(history_file) THEN NoStats
                                          ELSE get_today_stats(history_file, now)]
    /\ UNCHANGED <<history_file, now>>
    /\ UNCHANGED MonitorVars

StoreNext ==
    \/ add_to_history_returns
    \/ add_to_history_raises
    \/ cmd_history
    \/ callback_history_page
    \/ cmd_stats

StoreInit == Started({FileAbsent, FileOf(<<>>), FileOf(PriorLog)})

SpecStore == StoreInit /\ [][StoreNext]_vars

\* ------------------------------------- check_status in the two programs
\* status_monitor_userbot.py has its own get_status_type, format_status,
\* add_to_history and check_status; here they are as that file has them.
userbot_get_status_type(status) ==
    IF status.cls = "UserStatusOnline" THEN "online"
    ELSE IF status.cls = "UserStatusOffline" THEN "offline"
    ELSE IF status.cls = "UserStatusRecently" THEN "recently"
    ELSE IF status.cls = "UserStatusLastWeek" THEN "last_week"
    ELSE IF status.cls = "UserStatusLastMonth" THEN "last_month"
    ELSE "unknown"

userbot_format_status(status) ==
    IF status.cls = "UserStatusOnline" THEN [label |-> "online", at |-> None]
    ELSE IF status.cls = "UserStatusOffline" THEN
        IF status.was_online # None
        THEN [label |-> "was", at |-> strftime(status.was_online[1])]
        ELSE [label |-> "offline", at |-> None]
    ELSE IF status.cls = "UserStatusRecently" THEN [label |-> "recently", at |-> None]
    ELSE IF status.cls = "UserStatusLastWeek" THEN [label |-> "this_week", at |-> None]
    ELSE IF status.cls = "UserStatusLastMonth" THEN [label |-> "this_month", at |-> None]
    ELSE IF status.cls = "UserStatusEmpty" THEN [label |-> "long_ago", at |-> None]
    ELSE [label |-> "unknown", at |-> None]

\* current_last_online of the userbot's check_status
userbot_current_last_online_of(status) ==
    IF status.cls = "UserStatusOffline" /\ status.was_online # None
    THEN status.was_online
    ELSE None

\* Faulty variant of userbot_alert_for: the third branch lacks the
\* comparison with previous_last_online.
userbot_alert_for_any_last_seen(prev_type, prev_last, status) ==
    LET current_status_type == userbot_get_status_type(status)
        current_last_online == userbot_current_last_online_of(status)
    IN  IF prev_type = NoStatusType THEN NoAlert
        ELSE IF prev_type = "recently" /\ current_status_type # "recently"
             THEN "status_opened"
        ELSE IF current_status_type = "online" /\ prev_type # "online"
             THEN "now_online"
        ELSE IF /\ current_status_type = "offline"
                /\ current_last_online # None
             THEN "last_seen_opened"
        ELSE NoAlert

\* The branch of the userbot's if/elif chain that assigns alert_message.
userbot_alert_for(prev_type, prev_last, status) ==
    LET current_status_type == userbot_get_status_type(status)
        current_last_online == userbot_current_last_online_of(status)
    IN  IF prev_type = NoStatusType THEN NoAlert
        ELSE IF prev_type = "recently" /\ current_status_type # "recently"
             THEN "status_opened"
        ELSE IF current_status_type = "online" /\ prev_type # "online"
             THEN "now_online"
        ELSE IF /\ current_status_type = "offline"
                /\ current_last_online # None
                /\ current_last_online # prev_last
             THEN "last_seen_opened"
        ELSE NoAlert

\* The last_online argument of the userbot's add_to_history call.
userbot_recorded_last_online(alert, status) ==
    IF alert = "now_online" THEN None ELSE userbot_current_last_online_of(status)

userbot_recorded_file(file, t, alert, status) ==
    userbot_add_to_history(file, t, userbot_get_status_type(status),
                           userbot_format_status(status),
                           userbot_recorded_last_online(alert, status))

\* check_status of main.py, from the return of get_entity to its own, when
\* nothing raises: the branch taken, its entry, and the two assignments.
check_status ==
    /\ pc = "given"
    /\ \E r \in Readings :
          LET alert == alert_for(previous_status_type, previous_last_online, r)
          IN  /\ current_status' = r
              /\ alert_message' = alert
              /\ history_file' = IF alert = NoAlert THEN history_file
                                 ELSE recorded_file(history_file, now, alert, r)
              /\ previous_status_type' = get_status_type(r)
              /\ previous_last_online' = current_last_online_of(r)
    /\ pc' = "main"
    /\ UNCHANGED <<bot_status, CHAT_ID, reconnect_delay, exc_seconds, sleep_seconds, now, reply>>

\* check_status of status_monitor_userbot.py, likewise.
userbot_check_status ==
    /\ pc = "given"
    /\ \E r \in Readings :
          LET alert == userbot_alert_for(previous_status_type, previous_last_online, r)
          IN  /\ current_status' = r
              /\ alert_message' = alert
              /\ history_file' = IF alert = NoAlert THEN history_file
                                 ELSE userbot_recorded_file(history_file, now, alert, r)
              /\ previous_status_type' = userbot_get_status_type(r)
              /\ previous_last_online' = userbot_current_last_online_of(r)
    /\ pc' = "userbot"
    /\ UNCHANGED <<bot_status, CHAT_ID, reconnect_delay, exc_seconds, sleep_seconds, now, reply>>

\* The previous status a poll can find: none, or a kind with the last_online
\* that goes with it (a timestamp only with offline).
MonitorStates ==
    {<<k, None>> : k \in StatusKinds \cup {NoStatusType}}
        \cup {<<"offline", Some(t)>> : t \in WasOnlineTimes}

\* The files a poll can find: none, the empty list, a file the userbot
\* filled to its limit, and one main.py filled to one below its own.
VariantFiles ==
    {FileAbsent, FileOf(<<>>), FileOf(LastN(PriorLog, USERBOT_HISTORY_LIMIT)), FileOf(PriorLog)}

VariantsInit ==
    /\ pc = "given"
    /\ \E m \in MonitorStates : previous_status_type = m[1] /\ previous_last_online = m[2]
    /\ history_file \in VariantFiles
    /\ bot_status = [started_at |-> 0, last_check |-> None, total_checks |-> 0,
                     total_alerts |-> 0, last_error |-> None, last_reconnect |-> None,
                     flood_waits |-> 0, reconnects |-> 0, is_connected |-> TRUE]
    /\ CHAT_ID = NoChat
    /\ reconnect_delay = INITIAL_RECONNECT_DELAY
    /\ current_status = Unbound
    /\ alert_message = NoAlert
    /\ exc_seconds = 0
    /\ sleep_seconds = 0
    /\ now = 0
    /\ reply = NoReply

VariantsNext == check_status \/ userbot_check_status

SpecVariants == VariantsInit /\ [][VariantsNext]_vars

\* ------------------------------------------- the loop and the commands
\* main runs monitoring_loop as a task next to dp.start_polling(bot), which
\* serves the commands: one thread, so a handler runs between two awaits of
\* the loop, at any of them.  When start_polling returns, main cancels the
\* task, wherever it is suspended, and the process ends.

\* Faulty variant of cmd_heartbeat: the error is cleared once it was shown.
cmd_heartbeat_clears_last_error ==
    /\ reply' = [NoReply EXCEPT !.call = "cmd_heartbeat",
                                !.heartbeat = Some([uptime |-> now - bot_status.started_at,
                                                    status |-> bot_status])]
    /\ bot_status' = [bot_status EXCEPT !.last_error = None]
    /\ UNCHANGED <<pc, previous_status_type, previous_last_online, history_file, CHAT_ID,
                   reconnect_delay, current_status, alert_message, exc_seconds,
                   sleep_seconds, now>>

\* /heartbeat: the text shows the uptime and the fields of bot_status.
cmd_heartbeat ==
    /\ reply' = [NoReply EXCEPT !.call = "cmd_heartbeat",
                                !.heartbeat = Some([uptime |-> now - bot_status.started_at,
                                                    status |-> bot_status])]
    /\ UNCHANGED <<history_file, now>>
    /\ UNCHANGED MonitorVars

\* monitoring_task.cancel(): CancelledError is thrown into the await the
\* task is suspended at; no except clause of the loop catches it, so the
\* task ends and the locals of its frames are gone.
monitoring_task_cancel ==
    /\ pc # "cancelled"
    /\ pc' = "cancelled"
    /\ reconnect_delay' = INITIAL_RECONNECT_DELAY
    /\ current_status' = Unbound
    /\ alert_message' = NoAlert
    /\ exc_seconds' = 0
    /\ sleep_seconds' = 0
    /\ UNCHANGED <<previous_status_type, previous_last_online, history_file, bot_status,
                   CHAT_ID, now, reply>>

\* dp.start_polling(bot) has not returned
Serving == pc # "cancelled"

ServeNext ==
    \/ monitoring_loop
    \/ Serving /\ cmd_history
    \/ Serving /\ callback_history_page
    \/ Serving /\ cmd_stats
    \/ Serving /\ cmd_heartbeat
    \/ monitoring_task_cancel

\* The last ServePolls iterations of the modelled time, with the destination
\* chat configured, so that every notification is a send the loop awaits.
ServeStart == MaxTime + 1 - ServePolls

ServeInit == StartedWith({FileAbsent}, ServeStart, "chat")

SpecServe == ServeInit /\ [][ServeNext]_vars

\* ================================================================ claims
\* A step in which get_entity returned a status to check_status.
PollReturnsStatus == pc = "get_entity" /\ current_status' # Unbound

\* ... and in which, if a branch called add_to_history, the call returned
\* (the file could be parsed and nothing raised OSError).
PollCompleted ==
    /\ PollReturnsStatus
    /\ ~LoadRaises(history_file)
    /\ pc' \in {"alert_send", "interval_sleep"}

\* alert_message was assigned and send_bot_notification called with it: the
\* send is then awaited, unless no destination is configured.
NotificationRaised ==
    /\ alert_message' # NoAlert
    /\ pc' = "alert_send" \/ CHAT_ID = NoChat

\* No alert: nothing assigned to alert_message, no send awaited or counted.
NoNotification ==
    /\ alert_message' = NoAlert
    /\ pc' # "alert_send"
    /\ bot_status'.total_alerts = bot_status.total_alerts

\* The step appended exactly one entry, of this kind and last_seen, stamped
\* with the current time, behind the entries the file held (up to the limit).
OneEntryAppended(kind, last_seen) ==
    LET old == load_history(history_file)
        new == load_history(history_file')
        kept == Len(new) - 1
    IN  /\ history_file'.state = "ok"
        /\ Len(new) = Min(Len(old) + 1, HISTORY_LIMIT)
        /\ \A i \in 1..kept : new[i] = old[Len(old) - kept + i]
        /\ new[Len(new)].status_type = kind
        /\ new[Len(new)].timestamp = strftime(now)
        /\ new[Len(new)].last_online =
               IF last_seen = None THEN None ELSE strftime(last_seen[1])

LastEntry == history_file.log[Len(history_file.log)]

\* C1: on a poll with no baseline (previous_status_type is None), whatever
\* status get_entity returns, no alert is raised, nothing is sent or counted,
\* the history file is left as it is, and the poll only sets
\* previous_status_type / previous_last_online to the classified current
\* status before the interval sleep.
C1_FirstPollOnlySeeds ==
    [][(PollReturnsStatus /\ previous_status_type = NoStatusType)
        => /\ NoNotification
           /\ history_file' = history_file
           /\ pc' = "interval_sleep"
           /\ previous_status_type' = get_status_type(current_status')
           /\ previous_last_online' = current_last_online_of(current_status')]_vars

\* The first poll of the run read "online": baseline set, nothing recorded.
C1_Witness ==
    /\ now = 0
    /\ pc = "interval_sleep"
    /\ bot_status.total_checks = 1
    /\ current_status = Status("UserStatusOnline", None)
    /\ previous_status_type = "online"
    /\ alert_message = NoAlert
    /\ load_history(history_file) = <<>>

\* C2: a completed poll with previous "recently" and a current type other
\* than "recently" raises a notification and appends exactly one entry with
\* the current type and the current last_online (so recently -> offline at T
\* records (offline, T)).
C2_EmergedFromRecently ==
    [][(/\ PollCompleted
        /\ previous_status_type = "recently"
        /\ get_status_type(current_status') # "recently")
        => /\ NotificationRaised
           /\ OneEntryAppended(get_status_type(current_status'),
                               current_last_online_of(current_status'))]_vars

\* previous "recently", current offline with was_online = MaxWasOnline: the
\* entry is in the file and the alert is being sent.
C2_Witness ==
    /\ pc = "alert_send"
    /\ previous_status_type = "recently"
    /\ current_status = Status("UserStatusOffline", Some(MaxWasOnline))
    /\ Len(history_file.log) = 1
    /\ LastEntry.status_type = "offline"
    /\ LastEntry.last_online = strftime(MaxWasOnline)

\* C3: a completed poll with a baseline, previous type not "online" and
\* current type "online" raises a notification and appends exactly one entry
\* of type online without last_online (also from previous "recently").
C3_CameOnline ==
    [][(/\ PollCompleted
        /\ previous_status_type # NoStatusType
        /\ previous_status_type # "online"
        /\ get_status_type(current_status') = "online")
        => /\ NotificationRaised
           /\ OneEntryAppended("online", None)]_vars

\* previous offline with a last_online, current online: the second branch.
C3_Witness ==
    /\ pc = "alert_send"
    /\ previous_status_type = "offline"
    /\ previous_last_online = Some(1)
    /\ current_status = Status("UserStatusOnline", None)
    /\ alert_message = "now_online"
    /\ Len(history_file.log) = 1
    /\ LastEntry.status_type = "online"
    /\ LastEntry.last_online = None

\* C4: a completed poll with a baseline and previous type not "recently",
\* whose status is offline with was_online = T, T different from
\* previous_last_online (None included), raises a notification and appends
\* exactly one entry (offline, T).
C4_OfflineNewLastSeen ==
    [][(/\ PollCompleted
        /\ previous_status_type \notin {NoStatusType, "recently"}
        /\ current_status'.cls = "UserStatusOffline"
        /\ current_status'.was_online # None
        /\ current_status'.was_online # previous_last_online)
        => /\ NotificationRaised
           /\ OneEntryAppended("offline", current_status'.was_online)]_vars

\* previous online (so no previous last_online), current offline at T.
C4_Witness ==
    /\ pc = "alert_send"
    /\ previous_status_type = "online"
    /\ previous_last_online = None
    /\ current_status = Status("UserStatusOffline", Some(1))
    /\ alert_message = "last_seen_opened"
    /\ Len(history_file.log) = 1
    /\ LastEntry.status_type = "offline"
    /\ LastEntry.last_online = strftime(1)

\* The conditions of rules 2 to 4 on (previous, current), as the claim
\* states them.
Rule2Matches(prev_type, cur_type) == prev_type = "recently" /\ cur_type # "recently"
Rule3Matches(prev_type, cur_type) == cur_type = "online" /\ prev_type # "online"
Rule4Matches(prev_last, cur_type, cur_last) ==
    cur_type = "offline" /\ cur_last # None /\ cur_last # prev_last

\* C5: a poll with a baseline in which none of rules 2-4 matches raises no
\* notification and leaves the history file unchanged.
C5_NoRuleNoEvent ==
    [][(/\ PollReturnsStatus
        /\ previous_status_type # NoStatusType
        /\ LET cur_type == get_status_type(current_status')
               cur_last == current_last_online_of(current_status')
           IN  /\ ~Rule2Matches(previous_status_type, cur_type)
               /\ ~Rule3Matches(previous_status_type, cur_type)
               /\ ~Rule4Matches(previous_last_online, cur_type, cur_last))
        => /\ NoNotification
           /\ history_file' = history_file
           /\ pc' = "interval_sleep"]_vars

\* Three polls: a baseline, offline at 1 (recorded at tick 1), offline at 1
\* again: the third poll records nothing.
C5_Witness ==
    /\ now = 2
    /\ pc = "interval_sleep"
    /\ bot_status.total_checks = 3
    /\ current_status = Status("UserStatusOffline", Some(1))
    /\ previous_status_type = "offline"
    /\ previous_last_online = Some(1)
    /\ alert_message = NoAlert
    /\ Len(history_file.log) = 1
    /\ LastEntry.timestamp = strftime(1)
    /\ LastEntry.last_online = strftime(1)

\* C6: the history file never holds an entry of type "recently": in every
\* reachable state none is in the log, and a poll in which a branch of
\* check_status raises an alert (and so calls add_to_history) never has the
\* current type "recently".
C6_NoRecentlyInLog ==
    \A i \in 1..Len(history_file.log) : history_file.log[i].status_type # "recently"

C6_NeverRecordsRecently ==
    /\ []C6_NoRecentlyInLog
    /\ [][(PollReturnsStatus /\ alert_message' # NoAlert)
           => get_status_type(current_status') # "recently"]_vars

\* After an entry was recorded, the next poll reads "recently": nothing is
\* added to the log.
C6_Witness ==
    /\ now = 2
    /\ pc = "interval_sleep"
    /\ bot_status.total_checks = 3
    /\ current_status = Status("UserStatusRecently", None)
    /\ previous_status_type = "recently"
    /\ Len(history_file.log) = 1

\* The classifier as the claim tabulates it, on the readings of the claim:
\* <<kind, last_seen>>.
ClassifierTable(status) ==
    IF status = Status("UserStatusOnline", None) THEN <<"online", None>>
    ELSE IF status.cls = "UserStatusOffline" /\ status.was_online # None
         THEN <<"offline", status.was_online>>
    ELSE IF status = Status("UserStatusOffline", None) THEN <<"offline", None>>
    ELSE IF status = Status("UserStatusRecently", None) THEN <<"recently", None>>
    ELSE IF status = Status("UserStatusLastWeek", None) THEN <<"last_week", None>>
    ELSE IF status = Status("UserStatusLastMonth", None) THEN <<"last_month", None>>
    ELSE <<"unknown", None>>

\* C7: whatever status a poll has read, the classifier gives the kind and
\* last_seen of the table (one of the six kinds; a last_seen only for offline
\* with a timestamp), and a poll that ran to its end without an alert has
\* committed exactly these as previous_status_type / previous_last_online.
C7_ClassifierTotal ==
    current_status # Unbound =>
        LET kind == get_status_type(current_status)
            last_seen == current_last_online_of(current_status)
        IN  /\ kind \in StatusKinds
            /\ <<kind, last_seen>> = ClassifierTable(current_status)
            /\ last_seen # None =>
                   current_status.cls = "UserStatusOffline" /\ current_status.was_online # None
            /\ (pc = "interval_sleep" /\ alert_message = NoAlert) =>
                   /\ previous_status_type = ClassifierTable(current_status)[1]
                   /\ previous_last_online = ClassifierTable(current_status)[2]

\* A poll read UserStatusLastMonth and committed last_month.
C7_Witness ==
    /\ pc = "interval_sleep"
    /\ current_status = Status("UserStatusLastMonth", None)
    /\ alert_message = NoAlert
    /\ previous_status_type = "last_month"
    /\ previous_last_online = None

\* C8: the log in the history file never has more than HISTORY_LIMIT (500)
\* entries.
C8_LogBounded == Len(load_history(history_file)) <= HISTORY_LIMIT

\* An append to a full log has evicted the oldest entry of the earlier run.
C8_Witness ==
    /\ history_file.state = "ok"
    /\ Len(history_file.log) = HISTORY_LIMIT
    /\ history_file.log[1] = PriorEntry(PriorLen + 3 - HISTORY_LIMIT)
    /\ reply.call = "add_to_history"

\* The last n entries of s, in their order.
Newest(s, n) ==
    LET k == Min(Len(s), n) IN [i \in 1..k |-> s[Len(s) - k + i]]

\* C9: an add_to_history call that returns, with a type other than
\* "recently", on a log L leaves the log equal to the last HISTORY_LIMIT
\* entries of (L followed by the new entry), in their order.
C9_AppendKeepsNewest ==
    [][(/\ now' = now + 1
        /\ reply'.call = "add_to_history"
        /\ ~reply'.raised
        /\ reply'.status_type # "recently")
        => /\ history_file'.state = "ok"
           /\ load_history(history_file') =
                Newest(Append(load_history(history_file),
                              Entry(now, reply'.status_type,
                                    TextArg(reply'.status_type, reply'.last_online),
                                    reply'.last_online)),
                       HISTORY_LIMIT)]_vars

\* Two entries appended behind the earlier run's: the oldest is gone, the
\* two new ones are last, in the order of the calls.
C9_Witness ==
    /\ history_file.state = "ok"
    /\ Len(history_file.log) = HISTORY_LIMIT
    /\ history_file.log[1] = PriorEntry(PriorLen + 3 - HISTORY_LIMIT)
    /\ history_file.log[HISTORY_LIMIT - 1].timestamp = strftime(0)
    /\ history_file.log[HISTORY_LIMIT - 1].status_type = "online"
    /\ history_file.log[HISTORY_LIMIT].timestamp = strftime(1)
    /\ history_file.log[HISTORY_LIMIT].status_type = "offline"
    /\ reply = AppendReply("offline", Some(MaxWasOnline), FALSE)

\* ceil(k / p), for k >= 0 and p > 0
CeilDiv(k, p) == CHOOSE n \in 0..k : n * p >= k /\ (n = 0 \/ (n - 1) * p < k)

\* C10: on a parsable (or absent) store with K entries, get_history_page(i)
\* gives, for every i tried (below 0, in range, beyond the end),
\* total_pages = max(1, ceil(K / ITEMS_PER_PAGE)) and the page index i
\* clamped into [0, total_pages - 1]; page total_pages gives what page
\* total_pages - 1 gives; K = 0 gives one page without items; and the
\* handlers' calls do not raise.
C10_PageClamped ==
    ~LoadRaises(history_file) =>
        LET K == Len(load_history(history_file))
            pages == Max(1, CeilDiv(K, ITEMS_PER_PAGE))
        IN  /\ \A i \in (0 - PageSlack .. PageSlack) \cup (pages - PageSlack .. pages + PageSlack) :
                  LET r == get_history_page(history_file, i)
                  IN  /\ r.total_pages = pages
                      /\ r.page = (IF i < 0 THEN 0 ELSE IF i > pages - 1 THEN pages - 1 ELSE i)
            /\ get_history_page(history_file, pages) = get_history_page(history_file, pages - 1)
            /\ K = 0 => get_history_page(history_file, 0) =
                           [items |-> <<>>, page |-> 0, total_pages |-> 1, total_items |-> 0]
            /\ reply.call = "get_history_page" =>
                  /\ ~reply.raised
                  /\ reply.page.total_pages >= 1
                  /\ reply.page.page \in 0..(reply.page.total_pages - 1)

\* The pagination callback asked for page total_pages of a store of
\* PriorLen entries and got the last page.
C10_Witness ==
    /\ Len(load_history(history_file)) = PriorLen
    /\ reply.call = "get_history_page"
    /\ reply.arg = reply.page.total_pages
    /\ reply.page.page = reply.page.total_pages - 1
    /\ reply.page.items = get_history_page(history_file, reply.page.total_pages - 1).items
    /\ reply.page.items # <<>>

\* Pages lo..hi-1 of the file, one after the other.
RECURSIVE PagesBetween(_, _, _)
PagesBetween(file, lo, hi) ==
    IF hi <= lo THEN <<>>
    ELSE IF hi = lo + 1 THEN get_history_page(file, lo).items
    ELSE LET mid == (lo + hi) \div 2
         IN  PagesBetween(file, lo, mid) \o PagesBetween(file, mid, hi)

\* Pages 0..n-1 of the file, one after the other.
PagesUpTo(file, n) == PagesBetween(file, 0, n)

\* The window of a log of K entries that page p shows, newest first: the
\* entries at positions p*P+1 .. min((p+1)*P, K) counted from the newest.
PageWindow(log, p) ==
    LET K == Len(log)
        n == Max(0, Min(ITEMS_PER_PAGE, K - p * ITEMS_PER_PAGE))
    IN  [k \in 1..n |-> log[K - (p * ITEMS_PER_PAGE + k) + 1]]

\* C11: on a parsable (or absent) store, get_history_page(i), for every i
\* the handlers pass (below 0, in range, beyond the end), returns the
\* entries at positions [p*P, (p+1)*P) of the log read newest first, p being
\* the clamped index, and total_items = the length of the log; pages
\* 0..total_pages-1 one after the other are the log reversed (every entry
\* once); and what the handlers were given is that page.  (The pages are
\* put together in the states in which page 0 has just been served, as a
\* user paging on from /history sees them; every file has such a state.)
C11_PageContents ==
    ~LoadRaises(history_file) =>
        LET log == load_history(history_file)
            K == Len(log)
        IN  /\ (reply.call = "get_history_page" /\ ~reply.raised) =>
                  /\ reply.page = get_history_page(history_file, reply.arg)
                  /\ reply.page.items = PageWindow(log, reply.page.page)
                  /\ reply.page.total_items = K
            /\ (reply.call = "get_history_page" /\ reply.arg = 0) =>
                  LET all == PagesUpTo(history_file, reply.page.total_pages)
                  IN  /\ Len(all) = K
                      /\ \A j \in 1..K : all[j] = log[K + 1 - j]

\* The pagination callback asked for page 1 of the earlier run's log and
\* got its 6th to 10th newest entries, newest first.
C11_Witness ==
    /\ load_history(history_file) = PriorLog
    /\ reply.call = "get_history_page"
    /\ reply.arg = 1
    /\ reply.page.page = 1
    /\ Len(reply.page.items) = ITEMS_PER_PAGE
    /\ reply.page.items[1] = PriorEntry(PriorLen - ITEMS_PER_PAGE)
    /\ reply.page.items[ITEMS_PER_PAGE] = PriorEntry(PriorLen - 2 * ITEMS_PER_PAGE + 1)

\* The positions of the log whose timestamp falls on the day of instant t.
TodayIndexes(log, t) == {i \in 1..Len(log) : log[i].timestamp[1] = strftime(t)[1]}

\* The k-th smallest element of a set of numbers.
NthOf(S, k) == CHOOSE i \in S : Cardinality({j \in S : j < i}) = k - 1

\* st is the summary of the day of t over log, as the claim describes it.
StatsAreOf(st, log, t) ==
    LET idx == TodayIndexes(log, t)
        kind(i) == log[i].status_type
    IN  /\ Len(st.entries) = Cardinality(idx)
        /\ \A k \in 1..Len(st.entries) : st.entries[k] = log[NthOf(idx, k)]
        /\ st.total = Cardinality(idx)
        /\ st.online = Cardinality({i \in idx : kind(i) = "online"})
        /\ st.offline = Cardinality({i \in idx : kind(i) = "offline"})
        /\ st.online + st.offline <= st.total
        /\ (\E i \in idx : kind(i) \in {"last_week", "last_month", "unknown"})
               => st.online + st.offline < st.total

\* C12: on a parsable (or absent) store, get_today_stats gives exactly the
\* entries whose timestamp date is the current day, in log order, with
\* total their number, online / offline the numbers of those of type online /
\* offline; so online + offline <= total, strictly when an entry of another
\* type was recorded today; and that is what /stats was given.
C12_TodayStats ==
    ~LoadRaises(history_file) =>
        /\ StatsAreOf(get_today_stats(history_file, now), load_history(history_file), now)
        /\ (reply.call = "get_today_stats" /\ ~reply.raised) =>
               StatsAreOf(reply.stats, load_history(history_file), now)

\* /stats after a last_week entry was recorded today behind the earlier
\* run's entries: one entry today, counted in total only.
C12_Witness ==
    /\ Len(load_history(history_file)) = PriorLen + 1
    /\ now = 1
    /\ reply.call = "get_today_stats"
    /\ reply.stats.total = 1
    /\ reply.stats.online = 0
    /\ reply.stats.offline = 0
    /\ Len(reply.stats.entries) = 1
    /\ reply.stats.entries[1].status_type = "last_week"
    /\ reply.stats.entries[1].timestamp = strftime(0)

\* The delays the claim lists for the k-th of consecutive failures.
ClaimedDelays == <<5, 10, 20, 40, 80, 160, 300>>
ClaimedDelay(k) == ClaimedDelays[Min(k, Len(ClaimedDelays))]

\* In SpecOutage every iteration takes one tick and ends in the backoff
\* sleep or, check_status having returned, in the interval sleep.
\* The tick of the last iteration in which check_status returned (the tick
\* before the start when there was none) ...
LastPollReturn ==
    IF bot_status.last_check = None THEN OutageStart - 1 ELSE bot_status.last_check[1]

\* ... and the tick before the iteration of the last successful reconnect.
BeforeLastReconnect ==
    IF bot_status.last_reconnect = None THEN OutageStart - 1
    ELSE bot_status.last_reconnect[1] - 1

\* The loop is in the backoff sleep of the iteration: the connectivity
\* failures since tick t, this one included, are the iterations t+1..now.
FailuresSince(t) == now - t

\* C13 as stated: the k-th connectivity failure since the last iteration in
\* which a poll returned sleeps 5, 10, 20, 40, 80, 160, 300, 300, ... seconds
\* (so 5 right after a poll).
C13_DelayCountsFromLastPoll ==
    pc = "backoff_sleep" => sleep_seconds = ClaimedDelay(FailuresSince(LastPollReturn))

\* C13, amended: the k-th connectivity failure since the last iteration in
\* which check_status returned or, if later, since the last successful
\* reconnect (whose authorization check returned True) sleeps 5, 10, 20, 40,
\* 80, 160, 300, 300, ... seconds: the failure that follows a returned poll or
\* a successful reconnect sleeps 5.
C13_BackoffSequence ==
    pc = "backoff_sleep" =>
        sleep_seconds = ClaimedDelay(FailuresSince(Max(LastPollReturn, BeforeLastReconnect)))

\* Every iteration of the outage failed before any reconnect or poll
\* succeeded: the last of them sleeps 300 seconds for the second time.
C13_Witness ==
    /\ pc = "backoff_sleep"
    /\ now = MaxTime
    /\ bot_status.total_checks = 0
    /\ bot_status.reconnects = 0
    /\ FailuresSince(LastPollReturn) = MaxOutage
    /\ sleep_seconds = max_reconnect_delay
    /\ reconnect_delay = max_reconnect_delay

\* MonitorState: the two globals check_status commits.
MonitorState == <<previous_status_type, previous_last_online>>

\* C14: when get_entity raises FloodWaitError with seconds = S, the loop
\* counts one flood wait (and changes nothing else of bot_status), notifies
\* when a destination is configured, sleeps S seconds and is then at the top
\* of the loop again, with no interval sleep in between; reconnect_delay,
\* previous_status_type / previous_last_online and the history file stay as
\* they were throughout.
C14_FloodWait ==
    /\ [][(pc = "get_entity" /\ pc' \in {"flood_notify", "flood_sleep"})
           => /\ exc_seconds' \in 1..MaxFloodSeconds
              /\ bot_status' = [bot_status EXCEPT !.flood_waits = @ + 1]
              /\ pc' = (IF CHAT_ID = NoChat THEN "flood_sleep" ELSE "flood_notify")
              /\ pc' = "flood_sleep" => sleep_seconds' = exc_seconds'
              /\ UNCHANGED <<reconnect_delay, MonitorState, history_file>>]_vars
    /\ [][(pc = "flood_notify" /\ pc' # pc)
           => /\ pc' = "flood_sleep"
              /\ sleep_seconds' = exc_seconds
              /\ UNCHANGED <<exc_seconds, bot_status, reconnect_delay, MonitorState,
                             history_file, now>>]_vars
    /\ [][(pc = "flood_sleep" /\ pc' # pc)
           => /\ pc' = "top"
              /\ now' = now + 1
              /\ UNCHANGED <<bot_status, reconnect_delay, MonitorState, history_file>>]_vars
    /\ [](pc = "flood_sleep"
           => sleep_seconds = exc_seconds /\ exc_seconds \in 1..MaxFloodSeconds)

\* After one completed poll (baseline online) the second poll was told to
\* wait MaxFloodSeconds: the loop sleeps that long, one flood wait counted,
\* the baseline and the delay as before.
C14_Witness ==
    /\ pc = "flood_sleep"
    /\ now = 1
    /\ sleep_seconds = MaxFloodSeconds
    /\ bot_status.is_connected
    /\ bot_status.flood_waits = 1
    /\ bot_status.total_checks = 1
    /\ previous_status_type = "online"
    /\ reconnect_delay = INITIAL_RECONNECT_DELAY

\* The loop is suspended in a sleep that the stopped clock never ends.
ClockStopped ==
    /\ now = MaxTime
    /\ pc \in {"interval_sleep", "cooldown_sleep", "flood_sleep", "backoff_sleep"}

\* C15: whatever connect, the authorization check, get_entity,
\* add_to_history or the notifier raise, monitoring_loop does not end: in
\* every reachable state the loop task has a next step (or waits in a sleep
\* at the end of the modelled time), and from every point of an iteration,
\* so also from every handler that is notifying or sleeping after an error,
\* the loop is eventually at its top again.
C15_LoopNeverStops ==
    /\ []((ENABLED monitoring_loop) \/ ClockStopped)
    /\ (pc # "top") ~> (pc = "top" \/ ClockStopped)

\* The loop is at its top for the third time, after a connect that raised
\* ConnectionError (backoff) and, reconnected, a poll whose unrecognized
\* error check_status swallowed (no baseline yet).
C15_Witness ==
    /\ pc = "top"
    /\ now = MaxTime
    /\ bot_status.reconnects = 1
    /\ bot_status.total_checks = 1
    /\ bot_status.last_error = Some("Cannot send requests while disconnected")
    /\ previous_status_type = NoStatusType
    /\ current_status = Unbound

\* A step in which check_status runs to its end with a status read: from
\* get_entity when no alert is to be sent (none raised, or no destination),
\* or when the send of the alert has ended.
PollCommits ==
    \/ /\ pc = "get_entity"
       /\ pc' = "interval_sleep"
       /\ current_status' # Unbound
       /\ alert_message' = NoAlert \/ ~LoadRaises(history_file)
    \/ pc = "alert_send" /\ pc' = "interval_sleep"

\* C16 as stated: both fields are None at the start; once a poll has set
\* the baseline both are populated, and neither is reset to None.
C16_BothPopulated ==
    /\ [](previous_status_type = NoStatusType => previous_last_online = None)
    /\ [](previous_status_type # NoStatusType => previous_last_online # None)
    /\ [][previous_status_type # NoStatusType => previous_status_type' # NoStatusType]_vars
    /\ [][previous_last_online # None => previous_last_online' # None]_vars

\* C16, amended: both fields are None until a poll runs to its end; from
\* then on previous_status_type is one of the six kinds and is never reset to
\* None, while previous_last_online is the last_online of the status read
\* last: a timestamp when that status was offline with was_online, None
\* otherwise (so it goes back to None when a later poll reads another
\* status).  The two change in no step but the end of a poll.
C16_BaselineKept ==
    /\ [](previous_status_type \in StatusKinds \cup {NoStatusType})
    /\ [](previous_status_type = NoStatusType => previous_last_online = None)
    /\ [](previous_last_online # None => previous_status_type = "offline")
    /\ [][previous_status_type # NoStatusType => previous_status_type' \in StatusKinds]_vars
    /\ [][PollCommits
           => /\ previous_status_type' = ClassifierTable(current_status')[1]
              /\ previous_last_online' = ClassifierTable(current_status')[2]]_vars
    /\ [][MonitorState' # MonitorState => PollCommits]_vars

\* Three polls: offline at 1 (the baseline), offline at 2 (recorded), online
\* (recorded): previous_last_online, set after the first two, is None again.
C16_Witness ==
    /\ pc = "interval_sleep"
    /\ bot_status.total_checks = 3
    /\ previous_status_type = "online"
    /\ previous_last_online = None
    /\ Len(history_file.log) = 2
    /\ history_file.log[1].last_online = strftime(2)
    /\ history_file.log[2].status_type = "online"

\* The last error is the failed authorization check and no authorization
\* check of the loop has succeeded so far (each success counts a reconnect).
AwaitingAuthorization ==
    /\ bot_status.last_error = Some("Session is invalid")
    /\ bot_status.reconnects = 0

\* C17: when the authorization check of a reconnect returns False the loop
\* notifies (with a destination configured), sleeps the 60 s cooldown and is
\* at its top again with is_connected False; from there, until an
\* authorization check has succeeded, it retries connect and the check:
\* is_connected is not set and no poll (get_entity) is issued.
C17_NoPollUntilAuthorized ==
    /\ [][(pc = "authorize" /\ pc' \in {"auth_notify", "cooldown_sleep"})
           => /\ ~bot_status'.is_connected
              /\ pc' = (IF CHAT_ID = NoChat THEN "cooldown_sleep" ELSE "auth_notify")
              /\ pc' = "cooldown_sleep" => sleep_seconds' = AUTH_RETRY_SECONDS]_vars
    /\ [][(pc = "auth_notify" /\ pc' # pc)
           => pc' = "cooldown_sleep" /\ sleep_seconds' = AUTH_RETRY_SECONDS]_vars
    /\ [][(pc = "cooldown_sleep" /\ pc' # pc) => pc' = "top"]_vars
    /\ [](AwaitingAuthorization => ~bot_status.is_connected /\ pc # "get_entity")
    /\ [][(AwaitingAuthorization /\ pc = "top") => pc' \in {"top", "connect"}]_vars

\* An exception of the connectivity class, as the handlers of
\* monitoring_loop tell: ConnectionError, OSError, or a message that mentions
\* a connection.
ConnectivityClass(e) ==
    e.type \in {"ConnectionError", "OSError"} \/ MentionsConnection(e.text)

ConnectivityTexts == {e.text : e \in {x \in ClientErrors \cup {IOError} : ConnectivityClass(x)}}

\* The loop is in Disconnected after a connectivity failure: the last error
\* logged is of the connectivity class and is_connected is False, as the
\* handler left it (a successful reconnect sets it).
ConnectivityLost ==
    /\ bot_status.last_error # None
    /\ bot_status.last_error[1] \in ConnectivityTexts
    /\ ~bot_status.is_connected

\* C18: after a connectivity-class failure the loop notifies (with a
\* destination configured), sleeps the backoff delay and is at its top
\* again; from there it goes to connect, and the next poll (get_entity) is
\* issued only by a successful authorization check.
C18_ReconnectBeforeNextPoll ==
    /\ [][(pc' \in {"backoff_notify", "backoff_sleep"} /\ pc \notin {"backoff_notify", "backoff_sleep"})
           => /\ ConnectivityLost'
              /\ pc' = (IF CHAT_ID = NoChat THEN "backoff_sleep" ELSE "backoff_notify")]_vars
    /\ [][(pc = "backoff_notify" /\ pc' # pc) => pc' = "backoff_sleep"]_vars
    /\ [][(pc = "backoff_sleep" /\ pc' # pc) => pc' = "top" /\ ConnectivityLost']_vars
    /\ [][(ConnectivityLost /\ pc = "top") => pc' \in {"top", "connect"}]_vars
    /\ [][(ConnectivityLost /\ pc' = "get_entity") => pc = "authorize"]_vars

\* A step in which an exception that is neither FloodWaitError nor of the
\* connectivity class is logged: by check_status, which swallows it and
\* returns, or by the last handler of monitoring_loop when connect or the
\* authorization check raised it.
UnrecognizedPollFailure ==
    \/ pc = "get_entity" /\ pc' = "interval_sleep" /\ ~PollCommits
    \/ pc \in {"connect", "authorize"} /\ pc' = "interval_sleep"

\* C19: a poll that fails with an unrecognized exception leaves
\* reconnect_delay, is_connected and previous_status_type /
\* previous_last_online as they were, and the loop then sleeps
\* CHECK_INTERVAL once and is at its top again.
C19_UnrecognizedNoChange ==
    /\ [][UnrecognizedPollFailure
           => /\ reconnect_delay' = reconnect_delay
              /\ bot_status'.is_connected = bot_status.is_connected
              /\ MonitorState' = MonitorState
              /\ sleep_seconds' = CHECK_INTERVAL]_vars
    /\ [][(pc = "interval_sleep" /\ pc' # pc) => pc' = "top" /\ now' = now + 1]_vars

\* The file holds the entry of the poll in progress: its last entry has the
\* time and the type of the status just read.
EntryOfThisPoll(file, status) ==
    /\ file.state = "ok"
    /\ Len(file.log) >= 1
    /\ file.log[Len(file.log)].timestamp = strftime(now)
    /\ file.log[Len(file.log)].status_type = get_status_type(status)

SleepPcs == {"interval_sleep", "cooldown_sleep", "flood_sleep", "backoff_sleep"}

\* C20: within a poll the entry of a notable event is in the file before
\* the send of its notification is awaited, and previous_status_type /
\* previous_last_online are committed only after both (when the send has
\* ended, or at once when there is nothing to send); a poll is followed by a
\* sleep, the top of the loop is reached only from a sleep that took its
\* time, and get_entity is called only from there (or from the reconnect
\* that follows it): one poll at a time.
C20_StepsInOrder ==
    /\ [][(pc' = "alert_send" /\ pc # "alert_send")
           => /\ pc = "get_entity"
              /\ alert_message' # NoAlert
              /\ history_file' # history_file
              /\ EntryOfThisPoll(history_file', current_status')
              /\ MonitorState' = MonitorState]_vars
    /\ [](pc = "alert_send" => EntryOfThisPoll(history_file, current_status))
    /\ [][(pc = "alert_send" /\ pc' # pc)
           => /\ pc' = "interval_sleep"
              /\ history_file' = history_file
              /\ previous_status_type' = get_status_type(current_status)
              /\ previous_last_online' = current_last_online_of(current_status)]_vars
    /\ [][MonitorState' # MonitorState
           => /\ pc \in {"get_entity", "alert_send"}
              /\ pc' = "interval_sleep"
              /\ alert_message' # NoAlert => EntryOfThisPoll(history_file', current_status')]_vars
    /\ [][(pc \in {"get_entity", "alert_send"} /\ pc' # pc)
           => pc' \in {"alert_send", "flood_notify", "backoff_notify"} \cup SleepPcs]_vars
    /\ [][(pc' = "top" /\ pc # "top") => pc \in SleepPcs /\ now' = now + 1]_vars
    /\ [][(pc' = "get_entity" /\ pc # "get_entity")
           => pc \in {"top", "authorize", "reconnect_notify"}]_vars

\* The second poll read offline at 2 after offline at 1: the entry is in the
\* file, stamped with the time of the poll, the send of the alert is awaited
\* and the previous status is still that of the first poll.
C20_Witness ==
    /\ pc = "alert_send"
    /\ now = 1
    /\ previous_status_type = "offline"
    /\ previous_last_online = Some(1)
    /\ current_status = Status("UserStatusOffline", Some(2))
    /\ alert_message = "last_seen_opened"
    /\ Len(history_file.log) = 1
    /\ LastEntry.timestamp = strftime(1)
    /\ LastEntry.last_online = strftime(2)

\* The send of the alert has ended without the alert being counted: it
\* failed (bot.send_message raised, or int(CHAT_ID) did).
SendFailed ==
    /\ pc = "alert_send"
    /\ pc' # pc
    /\ bot_status'.total_alerts = bot_status.total_alerts

\* A branch raised an alert and recorded it while no destination is
\* configured: send_bot_notification returns at once.
NoDestination ==
    /\ pc = "get_entity"
    /\ CHAT_ID = NoChat
    /\ alert_message' # NoAlert
    /\ history_file' # history_file
    /\ history_file'.state = "ok"

AppendIOFails ==
    /\ pc = "get_entity"
    /\ alert_message' # NoAlert
    /\ ~LoadRaises(history_file)
    /\ history_file' \in {history_file, FileCorrupt}

AppendRaises ==
    /\ pc = "get_entity"
    /\ alert_message' # NoAlert
    /\ \/ history_file' \in {history_file, FileCorrupt}
       \/ LoadRaises(history_file)

\* C22: an OSError raised by open() or by the write inside add_to_history
\* is not caught there nor in check_status: it reaches the handler of
\* monitoring_loop (last_error is its text, the loop notifies the loss and
\* sleeps the backoff delay).  The poll awaits no send of the alert and
\* counts none, leaves previous_status_type / previous_last_online as they
\* were, so that the same status read again raises the same alert, and is
\* not counted in total_checks / last_check.  Whatever add_to_history
\* raises, the alert is neither sent nor counted and nothing is committed.
C22_AppendFailurePropagates ==
    /\ [][AppendIOFails
           => /\ pc' = (IF CHAT_ID = NoChat THEN "backoff_sleep" ELSE "backoff_notify")
              /\ bot_status'.last_error = Some(IOError.text)
              /\ bot_status'.total_alerts = bot_status.total_alerts
              /\ bot_status'.total_checks = bot_status.total_checks
              /\ bot_status'.last_check = bot_status.last_check
              /\ MonitorState' = MonitorState
              /\ alert_for(previous_status_type', previous_last_online', current_status')
                     = alert_message']_vars
    /\ [][AppendRaises
           => /\ pc' # "alert_send"
              /\ bot_status'.total_alerts = bot_status.total_alerts
              /\ MonitorState' = MonitorState
              /\ load_history(history_file') \in {load_history(history_file), <<>>}
              /\ alert_for(previous_status_type', previous_last_online', current_status')
                     = alert_message']_vars
    /\ [][(pc \in {"backoff_notify", "backoff_sleep"} /\ alert_message # NoAlert)
           => /\ bot_status'.total_alerts = bot_status.total_alerts
              /\ bot_status'.total_checks = bot_status.total_checks
              /\ MonitorState' = MonitorState
              /\ history_file' = history_file]_vars

\* The second poll read online after the baseline offline; the write of the
\* entry raised OSError and left the file unparsable: the loop sleeps the
\* backoff delay, one check counted (the first), no alert, the baseline kept.
C22_Witness ==
    /\ pc = "backoff_sleep"
    /\ now = 1
    /\ alert_message = "now_online"
    /\ current_status = Status("UserStatusOnline", None)
    /\ history_file = FileCorrupt
    /\ bot_status.last_error = Some(IOError.text)
    /\ ~bot_status.is_connected
    /\ bot_status.total_checks = 1
    /\ bot_status.total_alerts = 0
    /\ previous_status_type = "offline"
    /\ sleep_seconds = INITIAL_RECONNECT_DELAY

\* A step of check_status in which a branch's add_to_history call ran from
\* load_history to the end of save_history: one entry more, for the status
\* just read, behind the entries the file held.
WholeAppend ==
    /\ pc = "get_entity"
    /\ alert_message' # NoAlert
    /\ OneEntryAppended(get_status_type(current_status'),
                        recorded_last_online(alert_message', current_status'))

\* A step in which the write of save_history raised OSError, which the loop
\* then handles (C22): the only way a file is left unparsable.
WriteRaisedOSError ==
    /\ pc = "get_entity"
    /\ history_file' = FileCorrupt
    /\ pc' \in {"backoff_notify", "backoff_sleep"}
    /\ bot_status'.last_error = Some(IOError.text)

\* What a handler that calls get_history_page or get_today_stats in this
\* state is given: computed from the whole file as it is now.
ObservedNow(r) ==
    /\ r.call = "get_history_page" =>
           /\ r.raised = LoadRaises(history_file)
           /\ ~r.raised => /\ r.page = get_history_page(history_file, r.arg)
                           /\ r.page.total_items = Len(load_history(history_file))
    /\ r.call = "get_today_stats" =>
           /\ r.raised = LoadRaises(history_file)
           /\ ~r.raised => r.stats = get_today_stats(history_file, now)

\* C23: add_to_history awaits nothing, so between two awaits of the loop,
\* where the handlers run and where monitoring_task.cancel() takes effect,
\* the file is as it was before the call or as the whole call left it.
\* Every step that changes the file is one whole append (or a write that
\* raised OSError, the case of C22, and no cancellation or handler); a
\* handler is given the page or the statistics of the file of that moment,
\* all its entries counted; the cancellation leaves the file as it is, at
\* whatever await it arrives, and nothing changes it afterwards.
C23_WholeAppendsOnly ==
    /\ [][history_file' # history_file => WholeAppend \/ WriteRaisedOSError]_vars
    /\ [][reply' # reply
           => /\ reply'.call \in {"get_history_page", "get_today_stats", "cmd_heartbeat"}
              /\ ObservedNow(reply')
              /\ history_file' = history_file
              /\ pc' = pc]_vars
    /\ [][pc' = "cancelled" => history_file' = history_file]_vars
    /\ [][pc = "cancelled" => UNCHANGED vars]_vars
    /\ [](history_file.state = "corrupt" => bot_status.last_error # None)

\* The second poll read online after the baseline, wrote its entry and was
\* awaiting the send of the alert when /history was served (one entry, the
\* new one) and the task then cancelled: the file holds the whole entry, the
\* previous status is still the baseline.
C23_Witness ==
    /\ pc = "cancelled"
    /\ previous_status_type = "offline"
    /\ bot_status.total_alerts = 0
    /\ bot_status.total_checks = 1
    /\ history_file.state = "ok"
    /\ Len(history_file.log) = 1
    /\ LastEntry.status_type = "online"
    /\ LastEntry.timestamp = strftime(now)
    /\ reply.call = "get_history_page"
    /\ reply.page.total_items = 1
    /\ reply.page.items = <<LastEntry>>

\* A step that serves /history, the pagination callback, /stats or
\* /heartbeat: the one kind of step that gives a reply while the loop runs.
CommandServed == reply' # reply

\* C24: serving /history, the pagination callback, /stats or /heartbeat, in
\* whatever state of the loop, changes neither previous_status_type /
\* previous_last_online, nor any field of bot_status, nor reconnect_delay,
\* nor the history file (nor any other variable of the loop): the handlers
\* only read, and what /heartbeat shows is bot_status as it is.
C24_HandlersReadOnly ==
    /\ [][CommandServed
           => /\ reply'.call \in {"get_history_page", "get_today_stats", "cmd_heartbeat"}
              /\ MonitorState' = MonitorState
              /\ bot_status' = bot_status
              /\ reconnect_delay' = reconnect_delay
              /\ history_file' = history_file
              /\ UNCHANGED <<pc, CHAT_ID, current_status, alert_message, exc_seconds,
                             sleep_seconds, now>>]_vars
    /\ [][(CommandServed /\ reply'.call = "cmd_heartbeat")
           => reply'.heartbeat = Some([uptime |-> now - bot_status.started_at,
                                       status |-> bot_status'])]_vars
    /\ [][bot_status' # bot_status => pc' # pc /\ reply' = reply]_vars

\* /heartbeat served while the second poll awaits the send of its alert,
\* after a first poll and one reconnect: the reply shows the counters, and
\* the loop is where it was, the entry written and the previous status not
\* yet committed.
C24_Witness ==
    /\ pc = "alert_send"
    /\ reply.call = "cmd_heartbeat"
    /\ reply.heartbeat = Some([uptime |-> 1, status |-> bot_status])
    /\ bot_status.total_checks = 1
    /\ bot_status.reconnects = 1
    /\ bot_status.is_connected
    /\ Len(history_file.log) = 1
    /\ previous_status_type # get_status_type(current_status)
    /\ reconnect_delay = INITIAL_RECONNECT_DELAY

\* The rule of section "Transition Policy" that matches first, for the
\* previous status and the reading of this poll (NoAlert: rule 1 or rule 5).
FirstMatch(prev_type, prev_last, status) ==
    LET cur_type == ClassifierTable(status)[1]
        cur_last == ClassifierTable(status)[2]
    IN  IF prev_type = NoStatusType THEN NoAlert
        ELSE IF Rule2Matches(prev_type, cur_type) THEN "status_opened"
        ELSE IF Rule3Matches(prev_type, cur_type) THEN "now_online"
        ELSE IF Rule4Matches(prev_last, cur_type, cur_last) THEN "last_seen_opened"
        ELSE NoAlert

\* The step left one entry more in the file.
EntryAppended ==
    /\ history_file'.state = "ok"
    /\ Len(load_history(history_file')) = Len(load_history(history_file)) + 1

\* check_status reached "await send_bot_notification(alert_message, ...)":
\* the send is awaited, or, with no destination, the call returned at once
\* and the previous status was committed.
NotificationAttempted ==
    /\ alert_message' # NoAlert
    /\ \/ pc' = "alert_send"
       \/ CHAT_ID = NoChat /\ pc' = "interval_sleep" /\ MonitorState' # MonitorState

\* C25: the alert of a poll is that of the first rule that matches, in the
\* order 1 to 5; a poll leaves the file unchanged or one entry longer (or
\* unparsable, when the write raised), attempts a notification exactly when
\* it appended an entry, and awaits at most one send, which ends in the
\* interval sleep without another entry.
C25_FirstMatchWins ==
    /\ [][PollReturnsStatus
           => alert_message' = FirstMatch(previous_status_type, previous_last_online,
                                          current_status')]_vars
    /\ [][pc = "get_entity"
           => /\ EntryAppended \/ history_file' \in {history_file, FileCorrupt}
              /\ NotificationAttempted <=> EntryAppended
              /\ EntryAppended => LastEntry'.status_type = ClassifierTable(current_status')[1]]_vars
    /\ [][pc # "get_entity" => history_file' = history_file]_vars
    /\ [][(pc' = "alert_send" /\ pc # "alert_send") => pc = "get_entity"]_vars
    /\ [][(pc = "alert_send" /\ pc' # pc) => pc' = "interval_sleep"]_vars

\* Baseline recently, then online, where rules 2 and 3 both match: the one
\* alert is "status opened", one entry of kind online is in the file and
\* its send is awaited.
C25_Witness ==
    /\ pc = "alert_send"
    /\ previous_status_type = "recently"
    /\ current_status = Status("UserStatusOnline", None)
    /\ Rule2Matches(previous_status_type, get_status_type(current_status))
    /\ Rule3Matches(previous_status_type, get_status_type(current_status))
    /\ alert_message = "status_opened"
    /\ Len(history_file.log) = 1
    /\ LastEntry.status_type = "online"
    /\ bot_status.total_checks = 1

\* What each program's check_status computes in a step that starts from a
\* given previous status and file with the reading r.
MainAlert(r) == alert_for(previous_status_type, previous_last_online, r)
UserbotAlert(r) == userbot_alert_for(previous_status_type, previous_last_online, r)

MainFile(r) ==
    IF MainAlert(r) = NoAlert THEN history_file
    ELSE recorded_file(history_file, now, MainAlert(r), r)

UserbotFile(r) ==
    IF UserbotAlert(r) = NoAlert THEN history_file
    ELSE userbot_recorded_file(history_file, now, UserbotAlert(r), r)

LastOf(file) == file.log[Len(file.log)]

\* C26: for every previous status, reading and file, check_status of
\* main.py and of status_monitor_userbot.py raise the same alert or none,
\* append the same entry (the kind and last_online of the classifier table,
\* the same time and text) or none, and commit the same previous status;
\* the files they leave differ in length only: the userbot keeps the last
\* USERBOT_HISTORY_LIMIT entries of what main.py keeps.
C26_SamePolicy ==
    [][(pc = "given" /\ pc' # pc)
        => LET r == current_status'
               old == load_history(history_file)
           IN  /\ MainAlert(r) = UserbotAlert(r)
               /\ alert_message' = MainAlert(r)
               /\ MonitorState' = <<get_status_type(r), current_last_online_of(r)>>
               /\ MonitorState' = <<userbot_get_status_type(r), userbot_current_last_online_of(r)>>
               /\ history_file' = (IF pc' = "main" THEN MainFile(r) ELSE UserbotFile(r))
               /\ MainAlert(r) = NoAlert => MainFile(r) = history_file /\ UserbotFile(r) = history_file
               /\ MainAlert(r) # NoAlert =>
                     /\ LastOf(MainFile(r)) = LastOf(UserbotFile(r))
                     /\ LastOf(MainFile(r)).status_type = ClassifierTable(r)[1]
                     /\ LastOf(MainFile(r)).last_online =
                            (IF ClassifierTable(r)[2] = None THEN None
                             ELSE strftime(ClassifierTable(r)[2][1]))
                     /\ Len(MainFile(r).log) = Min(Len(old) + 1, HISTORY_LIMIT)
                     /\ Len(UserbotFile(r).log) = Min(Len(old) + 1, USERBOT_HISTORY_LIMIT)
                     /\ UserbotFile(r).log = LastN(MainFile(r).log, USERBOT_HISTORY_LIMIT)]_vars

\* The userbot's check_status on a file it had filled to its limit, previous
\* recently, reading offline at MaxWasOnline: "status opened", the entry
\* appended and the oldest dropped, where main.py would keep one entry more.
C26_Witness ==
    /\ pc = "userbot"
    /\ alert_message = "status_opened"
    /\ current_status = Status("UserStatusOffline", Some(MaxWasOnline))
    /\ previous_status_type = "offline"
    /\ previous_last_online = Some(MaxWasOnline)
    /\ Len(history_file.log) = USERBOT_HISTORY_LIMIT
    /\ history_file.log[1] = PriorEntry(PriorLen - USERBOT_HISTORY_LIMIT + 2)
    /\ LastEntry.status_type = "offline"
    /\ LastEntry.last_online = strftime(MaxWasOnline)

\* C27: in every reachable state every entry of the history file that has
\* a last_online is of type offline; entries of the other types (online,
\* last_week, last_month, unknown) have none, and no entry is of type
\* recently.
C27_LastSeenOnlyOffline ==
    \A i \in 1..Len(load_history(history_file)) :
        LET entry == load_history(history_file)[i]
        IN  /\ entry.last_online # None => entry.status_type = "offline"
            /\ entry.status_type \in StatusKinds \ {"recently"}

\* Two entries after three polls (baseline recently): offline with the
\* last_online it was read with, then online with none.
C27_Witness ==
    /\ history_file.state = "ok"
    /\ Len(history_file.log) = 2
    /\ history_file.log[1].status_type = "offline"
    /\ history_file.log[1].last_online = strftime(MaxWasOnline)
    /\ history_file.log[2].status_type = "online"
    /\ history_file.log[2].last_online = None
    /\ bot_status.total_checks = 3

\* C28 as stated: is_connected is False in every backoff sleep and every
\* cooldown after a failed authorization check, and True whenever
\* get_entity is called and in every flood-wait and interval sleep.
C28_FlagTracksLoop ==
    /\ pc = "backoff_sleep" => ~bot_status.is_connected
    /\ pc = "cooldown_sleep" => ~bot_status.is_connected
    /\ pc = "get_entity" => bot_status.is_connected
    /\ pc \in {"flood_sleep", "interval_sleep"} => bot_status.is_connected

FloodPcs == {"flood_notify", "flood_sleep"}

\* C28, amended: is_connected is False in every backoff sleep and every
\* cooldown (and while their notifications are sent) and True whenever
\* get_entity is called and while the alert of a poll is sent.  In a
\* flood-wait or interval sleep it is True when the sleep follows a poll
\* (get_entity raised FloodWaitError, or check_status returned) and False
\* when it follows a FloodWaitError or an unrecognized exception raised by
\* connect or by the authorization check of a reconnect: the handlers of
\* these two do not touch the flag, which the reconnect block had set False.
\* The flag does not change while the loop notifies or sleeps.
C28_FlagAsLoopLeftIt ==
    /\ [](pc \in {"backoff_notify", "backoff_sleep"} => ~bot_status.is_connected)
    /\ [](pc \in {"auth_notify", "cooldown_sleep"} => ~bot_status.is_connected)
    /\ [](pc \in {"get_entity", "alert_send"} => bot_status.is_connected)
    /\ [](pc \in {"connect", "authorize"} => ~bot_status.is_connected)
    /\ [][(pc' \in FloodPcs /\ pc \notin FloodPcs)
           => bot_status'.is_connected = (pc = "get_entity")]_vars
    /\ [][(pc' = "interval_sleep" /\ pc # "interval_sleep")
           => bot_status'.is_connected = (pc \in {"get_entity", "alert_send"})]_vars
    /\ [][bot_status'.is_connected # bot_status.is_connected
           => pc \in {"top", "authorize", "get_entity"}]_vars

\* A reconnect at the third iteration, after two polls: connect raised an
\* exception no handler recognizes, and the loop sleeps the interval with
\* is_connected still False.
C28_Witness ==
    /\ pc = "interval_sleep"
    /\ ~bot_status.is_connected
    /\ bot_status.last_error = Some("Could not find the input entity")
    /\ bot_status.total_checks = 2
    /\ bot_status.last_check = Some(1)
    /\ now = 2
    /\ current_status = Unbound

NotifyPcs == {"reconnect_notify", "flood_notify", "backoff_notify", "auth_notify"}

\* C29: total_alerts never exceeds the number of entries appended (here the
\* length of the log, which starts empty and is far from its limit, as long
\* as the file can be parsed).  It grows by one, and only in the step that
\* ends the send of an alert: the alert of a branch of check_status whose
\* entry is in the file since before the send, one send per appended entry.
\* The notices of a reconnect, a flood wait, a lost connection or an invalid
\* session leave it unchanged.
C29_AlertsAtMostEntries ==
    /\ [](history_file.state # "corrupt"
           => bot_status.total_alerts <= Len(load_history(history_file)))
    /\ [][bot_status'.total_alerts # bot_status.total_alerts
           => /\ pc = "alert_send"
              /\ pc' = "interval_sleep"
              /\ bot_status'.total_alerts = bot_status.total_alerts + 1
              /\ alert_message # NoAlert
              /\ EntryOfThisPoll(history_file, current_status)
              /\ history_file' = history_file]_vars
    /\ [][(pc' = "alert_send" /\ pc # "alert_send")
           => EntryAppended /\ bot_status' = bot_status]_vars
    /\ [][(pc \in NotifyPcs) => bot_status'.total_alerts = bot_status.total_alerts]_vars

\* After a reconnect with its notice sent, a baseline and two recorded
\* polls, the send of one alert succeeded and that of the other failed:
\* one alert counted, two entries.
C29_Witness ==
    /\ pc = "interval_sleep"
    /\ CHAT_ID # NoChat
    /\ bot_status.reconnects = 1
    /\ bot_status.total_checks = 3
    /\ bot_status.total_alerts = 1
    /\ history_file.state = "ok"
    /\ Len(history_file.log) = 2

====
